---------------------------- MODULE Spec2Model ----------------------------
(***************************************************************************)
(* Model of cloudlaunch's BaseVMAppPlugin (backend_plugins/base_vm_app.py). *)
(*                                                                         *)
(* The cloud provider (the CloudBridge capability interface) is a record   *)
(* `provider` holding the resources the plugin reads and writes.  Every    *)
(* method of the plugin is a pure operator from a provider state, the      *)
(* method's arguments and a failure oracle `f` (which remote calls raise   *)
(* in this invocation) to an outcome record                                *)
(*     [p |-> provider state after, ret |-> value, exc |-> raised?,        *)
(*      trace |-> the remote calls and progress events, in order].         *)
(* An action applies one method to the current provider state and records  *)
(* the finished invocation in `call`.                                      *)
(*                                                                         *)
(* `tasks` is the table of deployment tasks of the web API, and `runs`     *)
(* holds the position and locals of each of the runs that resolve a public *)
(* address concurrently; both stay empty where a specification does not    *)
(* use them.                                                               *)
(***************************************************************************)
EXTENDS Naturals, Integers, Sequences, FiniteSets, Bags, TLC

VARIABLES provider, call, tasks, runs

vars == <<provider, call, tasks, runs>>

\* Python's None.
None == "None"

\* Python truthiness of an optional string: None and '' are falsy.
Truthy(x) == x /= None /\ x /= ""

-----------------------------------------------------------------------------
(* The provider's networks and subnets.  provider.routers is the bag of    *)
(* the provider's routers, each a record [network_id, gw, subnets]: its    *)
(* network, whether an internet gateway is attached, its attached subnets. *)
(* provider.gateways holds the networks that have an internet gateway.     *)
(*                                                                         *)
(* The provider's networks and subnets.  Network n1 holds two subnets in   *)
(* two zones; nd is the provider's default network, whose default subnet   *)
(* exists only once get_or_create_default has made it.                     *)

NetIds == {"n1", "nd"}

SubnetIds == {"s1", "s2", "sd"}

\* The order in which the provider lists subnets.
SubnetOrder == <<"s1", "s2", "sd">>

SubnetNet(s) == IF s \in {"s1", "s2"} THEN "n1" ELSE "nd"

SubnetZone(s) == IF s = "s2" THEN "zb" ELSE "za"

\* subnet.network_id, with the AttributeError of None.network_id left to the
\* callers (they test for None first or run inside a try block).
NetworkIdOf(subnet) == IF subnet = None THEN None ELSE SubnetNet(subnet)

\* net.subnets: the existing subnets of a network, in listing order.
NetSubnets(p, n) ==
    SelectSeq(SubnetOrder, LAMBDA s : s \in p.subnets /\ SubnetNet(s) = n)

\* The subnet subnets.get_or_create_default(zone) answers with: the default
\* subnet of the provider's default network.
DefaultSubnetFor(zone) == "sd"

\* An outcome record.
Outcome(p, ret, exc, trace) == [p |-> p, ret |-> ret, exc |-> exc, trace |-> trace]

\* One entry of a trace: a remote call (or progress event), its argument, and
\* whether it returned (TRUE) or raised (FALSE).
Step(op, arg, ok) == [op |-> op, arg |-> arg, ok |-> ok]

\* The failure oracle of one invocation: f.ops, the remote calls that raise;
\* f.attach, the subnets whose router.attach_subnet raises; f.rules, the
\* positions of the firewall rules whose rules.create raises; f.ip, the kind
\* of addresses the provider gives a new instance; f.conf, which result the
\* configurer's configure returns under 'cloudLaunch'.
Fails(f, op) == op \in f.ops

\* The trace with its last step marked as having raised.
RECURSIVE Raised(_)
Raised(trace) ==
    IF Len(trace) = 1 THEN <<[trace[1] EXCEPT !.ok = FALSE]>>
    ELSE <<Head(trace)>> \o Raised(Tail(trace))

-----------------------------------------------------------------------------
(* get_or_create_default_subnet, base_vm_app.py lines 181-199.              *)

\* The scan of net.subnets (lines 189-195): the first subnet when no placement
\* is asked for, else the first subnet of the placement zone; None when the
\* loop ends without returning.
ScanSubnets(sns, placement) ==
    LET hits == SelectSeq(sns, LAMBDA s : ~Truthy(placement) \/ SubnetZone(s) = placement)
    IN  IF hits = <<>> THEN None ELSE hits[1]

\* Lines 196-199: the default subnet of the zone, None passed as ''.
DefaultSubnetCall(p, placement, f) ==
    LET zone == IF Truthy(placement) THEN placement ELSE ""
        st   == Step("subnets.get_or_create_default", zone, TRUE)
        sn   == DefaultSubnetFor(zone)
    IN  IF Fails(f, "subnets.get_or_create_default")
        THEN Outcome(p, None, TRUE, Raised(<<st>>))
        ELSE Outcome([p EXCEPT !.subnets = @ \cup {sn}], sn, FALSE, <<st>>)

GetOrCreateDefaultSubnet(p, network_id, placement, f) ==
    IF Truthy(network_id)
    THEN LET st == Step("networks.get", network_id, TRUE)
         IN  IF Fails(f, "networks.get") \/ network_id \notin NetIds
             \* networks.get raises, or answers None and None.subnets raises
             THEN Outcome(p, None, TRUE, Raised(<<st>>))
             ELSE LET sn == ScanSubnets(NetSubnets(p, network_id), placement)
                  IN  IF sn /= None
                      THEN Outcome(p, sn, FALSE, <<st>>)
                      ELSE LET d == DefaultSubnetCall(p, placement, f)
                           IN  Outcome(d.p, d.ret, d.exc, <<st>> \o d.trace)
    ELSE DefaultSubnetCall(p, placement, f)

-----------------------------------------------------------------------------
(* setup_networking, base_vm_app.py lines 201-237.                          *)

\* Lines 204-208: the subnet the call works with.  subnets.get answers None
\* for an id the provider does not know.
ResolveSubnet(p, net_id, subnet_id, placement, f) ==
    IF Truthy(subnet_id)
    THEN LET st == Step("subnets.get", subnet_id, TRUE)
         IN  IF Fails(f, "subnets.get")
             THEN Outcome(p, None, TRUE, Raised(<<st>>))
             ELSE Outcome(p, IF subnet_id \in p.subnets THEN subnet_id ELSE None,
                          FALSE, <<st>>)
    ELSE GetOrCreateDefaultSubnet(p, net_id, placement, f)

\* A router check that never finds the subnet attached.
AttachedToRouterNever(p, subnet) == FALSE

\* Lines 214-218: some router of the subnet's network lists the subnet.
AttachedToRouter(p, subnet) ==
    \E r \in BagToSet(p.routers) :
        /\ r.network_id = SubnetNet(subnet)
        /\ subnet \in r.subnets

\* Lines 229-230: router.attach_subnet over the network's subnets, in listing
\* order, up to the first one that raises.
RECURSIVE AttachLoop(_, _, _)
AttachLoop(sns, attached, f) ==
    IF sns = <<>> THEN [attached |-> attached, trace |-> <<>>]
    ELSE IF Head(sns) \in f.attach
    THEN [attached |-> attached,
          trace |-> <<Step("router.attach_subnet", Head(sns), FALSE)>>]
    ELSE LET rest == AttachLoop(Tail(sns), attached \cup {Head(sns)}, f)
         IN  [attached |-> rest.attached,
              trace |-> <<Step("router.attach_subnet", Head(sns), TRUE)>> \o rest.trace]

\* Lines 220-232: create a router, get or create the network's gateway, attach
\* it, attach the network's subnets.  The first call that raises ends the
\* block; what was made before it stays at the provider.
CreateRouter(p, subnet, f) ==
    LET net   == SubnetNet(subnet)
        sCr   == Step("routers.create", net, TRUE)
        sNet  == Step("networks.get@router", net, TRUE)
        sSns  == Step("network.subnets", net, TRUE)
        sGw   == Step("gateways.get_or_create_inet_gateway", net, TRUE)
        sAt   == Step("router.attach_gateway", net, TRUE)
        r0    == [network_id |-> net, gw |-> FALSE, subnets |-> {}]
        r1    == [r0 EXCEPT !.gw = TRUE]
        p1    == [p EXCEPT !.routers = @ (+) SetToBag({r0})]
        p2    == [p1 EXCEPT !.gateways = @ \cup {net}]
        p3    == [p2 EXCEPT !.routers = p.routers (+) SetToBag({r1})]
        loop  == IF Fails(f, "network.subnets")
                 THEN [attached |-> {}, trace |-> Raised(<<sSns>>)]
                 ELSE LET a == AttachLoop(NetSubnets(p3, net), {}, f)
                      IN  [attached |-> a.attached, trace |-> <<sSns>> \o a.trace]
        p4    == [p3 EXCEPT !.routers =
                              p.routers (+) SetToBag({[r1 EXCEPT !.subnets = loop.attached]})]
    IN  IF Fails(f, "routers.create")
             THEN [p |-> p, failed |-> TRUE, trace |-> Raised(<<sCr>>)]
        ELSE IF Fails(f, "networks.get@router")
             THEN [p |-> p1, failed |-> TRUE, trace |-> Raised(<<sCr, sNet>>)]
        ELSE IF Fails(f, "gateways.get_or_create_inet_gateway")
             THEN [p |-> p1, failed |-> TRUE, trace |-> Raised(<<sCr, sNet, sGw>>)]
        ELSE IF Fails(f, "router.attach_gateway")
             THEN [p |-> p2, failed |-> TRUE, trace |-> Raised(<<sCr, sNet, sGw, sAt>>)]
        ELSE [p |-> p4,
              failed |-> ~loop.trace[Len(loop.trace)].ok,
              trace |-> <<sCr, sNet, sGw, sAt>> \o loop.trace]

\* Lines 210-236, the try block: "Make sure the subnet has Internet
\* connectivity".  routers.list stands for the listing of the routers and of
\* their subnets.  With no subnet, the first attribute access on None raises
\* inside the block.
EnsureReachable(p, subnet, f) ==
    LET sLs == Step("routers.list", None, TRUE)
    IN  IF Fails(f, "routers.list")
        THEN [p |-> p, failed |-> TRUE, trace |-> Raised(<<sLs>>)]
        ELSE IF subnet = None
        THEN [p |-> p, failed |-> TRUE, trace |-> <<sLs>>]
        ELSE IF AttachedToRouter(p, subnet)
             THEN [p |-> p, failed |-> FALSE, trace |-> <<sLs>>]
             ELSE LET c == CreateRouter(p, subnet, f)
                  IN  [p |-> c.p, failed |-> c.failed, trace |-> <<sLs>> \o c.trace]

\* A setup_networking whose try block lets the exception through.
SetupNetworkingPropagates(p, net_id, subnet_id, placement, f) ==
    LET r == ResolveSubnet(p, net_id, subnet_id, placement, f)
    IN  IF r.exc THEN r
        ELSE LET e == EnsureReachable(r.p, r.ret, f)
             IN  Outcome(e.p, r.ret, e.failed, r.trace \o e.trace)

\* A setup_networking whose try block also covers the subnet lookup.
SetupNetworkingCatchesLookup(p, net_id, subnet_id, placement, f) ==
    LET r == ResolveSubnet(p, net_id, subnet_id, placement, f)
    IN  IF r.exc THEN Outcome(r.p, None, FALSE, r.trace)
        ELSE LET e == EnsureReachable(r.p, r.ret, f)
             IN  Outcome(e.p, r.ret, FALSE, r.trace \o e.trace)

SetupNetworking(p, net_id, subnet_id, placement, f) ==
    LET r == ResolveSubnet(p, net_id, subnet_id, placement, f)
    IN  IF r.exc THEN r
        ELSE LET e == EnsureReachable(r.p, r.ret, f)
             \* line 233: whatever the block raised is logged and dropped
             IN  Outcome(e.p, r.ret, FALSE, r.trace \o e.trace)

-----------------------------------------------------------------------------
(* VM firewalls.  A firewall of the provider is a record                   *)
(* [id, label, network_id, rules]; a provider that keeps no network on its *)
(* firewalls (provider.fwScoped = FALSE) reports network_id None on all.   *)

FwIds == <<"fw1", "fw2", "fw3", "fw4", "fw5", "fw6", "fw7", "fw8">>

IdxName == <<"1", "2", "3", "4", "5", "6", "7", "8">>

\* int(rule.get('from')) / int(rule.get('to')): the port a string denotes, -1
\* standing for the ValueError of a string that is no number.
IntOf(s) ==
    CASE s = "22" -> 22
      [] s = "80" -> 80
      [] s = "1" -> 1
      [] s = "65535" -> 65535
      [] OTHER -> -1

\* vm_firewalls.find(label=vmf_name): the firewalls of that label, in the
\* provider's listing order.
FindFirewalls(p, vmf_name) == SelectSeq(p.firewalls, LAMBDA v : v.label = vmf_name)

\* A match on the network id alone, without the wildcard of a firewall that
\* has no network.
VmfMatchesExact(vmf, network_id) == vmf.network_id = network_id

\* Line 59: the firewall has no network, or the subnet's network.
VmfMatches(vmf, network_id) == vmf.network_id = None \/ vmf.network_id = network_id

\* _get_or_create_vmf, lines 47-62.
GetOrCreateVmf(p, subnet, vmf_name, f) ==
    LET network_id == NetworkIdOf(subnet)
        sFind == Step("vm_firewalls.find", vmf_name, TRUE)
        sMake == Step("vm_firewalls.create", vmf_name, TRUE)
        hits  == SelectSeq(FindFirewalls(p, vmf_name), LAMBDA v : VmfMatches(v, network_id))
        new   == [id |-> FwIds[Len(p.firewalls) + 1], label |-> vmf_name,
                  network_id |-> IF p.fwScoped THEN network_id ELSE None,
                  rules |-> {}]
    IN  IF Fails(f, "vm_firewalls.find") THEN Outcome(p, None, TRUE, Raised(<<sFind>>))
        ELSE IF hits /= <<>> THEN Outcome(p, hits[1].id, FALSE, <<sFind>>)
        ELSE IF Fails(f, "vm_firewalls.create")
             THEN Outcome(p, None, TRUE, Raised(<<sFind, sMake>>))
        ELSE Outcome([p EXCEPT !.firewalls = Append(@, new)], new.id, FALSE, <<sFind, sMake>>)

\* The position of firewall `id` in provider.firewalls.
FwIndex(p, id) == CHOOSE i \in 1..Len(p.firewalls) : p.firewalls[i].id = id

\* Lines 164-178, one rule of the group: the ingress rule is created from the
\* firewall itself whenever src_group is set, else from the rule's cidr; an
\* exception (a port that is no number, a provider error) is logged, the rule
\* is left out and the loop goes on.
ApplyRule(p, id, rule, i, f) ==
    LET from == IntOf(rule.from)
        to   == IntOf(rule.to)
        made == [protocol |-> rule.protocol, from_port |-> from, to_port |-> to,
                 cidr |-> IF Truthy(rule.src_group) THEN None ELSE rule.cidr,
                 src_dest_fw |-> IF Truthy(rule.src_group) THEN id ELSE None]
        k    == FwIndex(p, id)
    IN  IF from = -1 \/ to = -1
        THEN [p |-> p, trace |-> <<Step("int", IdxName[i], FALSE)>>]
        ELSE IF i \in f.rules
        THEN [p |-> p, trace |-> <<Step("rules.create", IdxName[i], FALSE)>>]
        ELSE [p |-> [p EXCEPT !.firewalls[k].rules = @ \cup {made}],
              trace |-> <<Step("rules.create", IdxName[i], TRUE)>>]

\* A rule loop that ends at the first rule that raises.
RECURSIVE ApplyRulesAbort(_, _, _, _, _)
ApplyRulesAbort(p, id, rules, i, f) ==
    IF i > Len(rules) THEN [p |-> p, trace |-> <<>>]
    ELSE LET one == ApplyRule(p, id, rules[i], i, f)
         IN  IF ~one.trace[1].ok THEN one
             ELSE LET rest == ApplyRulesAbort(one.p, id, rules, i + 1, f)
                  IN  [p |-> rest.p, trace |-> one.trace \o rest.trace]

\* Lines 163-178: the rules of one group, in the order of the specification.
RECURSIVE ApplyRules(_, _, _, _, _)
ApplyRules(p, id, rules, i, f) ==
    IF i > Len(rules) THEN [p |-> p, trace |-> <<>>]
    ELSE LET one  == ApplyRule(p, id, rules[i], i, f)
             rest == ApplyRules(one.p, id, rules, i + 1, f)
         IN  [p |-> rest.p, trace |-> one.trace \o rest.trace]

\* group.get('securityGroup') or 'cloudlaunch', line 157.
VmfName(group) == IF Truthy(group.securityGroup) THEN group.securityGroup ELSE "cloudlaunch"

\* A reconciliation of every group of the specification, one after the other.
RECURSIVE ReconcileGroups(_, _, _, _)
ReconcileGroups(p, subnet, groups, f) ==
    IF groups = <<>> THEN Outcome(p, <<>>, FALSE, <<>>)
    ELSE LET g == GetOrCreateVmf(p, subnet, VmfName(groups[1]), f)
         IN  IF g.exc THEN g
             ELSE LET rs   == ApplyRules(g.p, g.ret, groups[1].rules, 1, f)
                      rest == ReconcileGroups(rs.p, subnet, Tail(groups), f)
                  IN  IF rest.exc THEN Outcome(rest.p, None, TRUE, g.trace \o rs.trace \o rest.trace)
                      ELSE Outcome(rest.p, <<g.ret>> \o rest.ret, FALSE,
                                   g.trace \o rs.trace \o rest.trace)

\* A configure_vm_firewalls whose return follows the loop over the groups.
ConfigureVmFirewallsAll(p, subnet, firewall, f) ==
    IF firewall = <<>> THEN Outcome(p, None, FALSE, <<>>)
    ELSE ReconcileGroups(p, subnet, firewall, f)

\* configure_vm_firewalls, lines 154-179.  The return of line 179 sits inside
\* the loop over the groups: the call ends after the first group.  With no
\* group the loop body never runs and the call returns None.
ConfigureVmFirewalls(p, subnet, firewall, f) ==
    IF firewall = <<>> THEN Outcome(p, None, FALSE, <<>>)
    ELSE LET group == firewall[1]
             g     == GetOrCreateVmf(p, subnet, VmfName(group), f)
         IN  IF g.exc THEN g
             ELSE LET rs == ApplyRules(g.p, g.ret, group.rules, 1, f)
                  IN  Outcome(rs.p, <<g.ret>>, FALSE, g.trace \o rs.trace)

-----------------------------------------------------------------------------
(* Key pairs, instances and floating IPs.  provider.keypairs holds the     *)
(* key pairs, each a record [id, name]; provider.instances the instances,  *)
(* each a record                                                           *)
(* [id, state, public_ip, private_ip, subnet, vmfl]; provider.fips the     *)
(* floating IPs, each [ip, in_use].                                        *)

InstIds == <<"i1", "i2", "i3", "i4", "i5", "i6">>

\* The ids the provider gives the key pairs it creates.
KpIds == <<"kp-1", "kp-2", "kp-3", "kp-4", "kp-5", "kp-6">>

NewFips == <<"fip-new1", "fip-new2", "fip-new3", "fip-new4", "fip-new5", "fip-new6">>

\* An address test for which no private address is globally routable.
IsGlobalNever(ip) == FALSE

\* ipaddress.ip_address(ip).is_global: 10.0.0.5 is a private address,
\* 115.146.92.7 a globally routable one.
IsGlobal(ip) == ip = "115.146.92.7"

\* A scan of the gateway's floating IPs that finds none unused.
UnusedFloatingIpsNone(p) == <<>>

\* Lines 96-99: the gateway's floating IPs that are not in use, in listing
\* order; the loop takes the first.
UnusedFloatingIps(p) == SelectSeq(p.fips, LAMBDA x : ~x.in_use)

\* The state of one deploy run: the provider, whether an exception is
\* propagating, the trace so far, and the locals of _provision_host.
RunStart(p) ==
    [p |-> p, exc |-> FALSE, trace |-> <<>>, kp |-> [id |-> None, name |-> None, material |-> None],
     subnet |-> None, vmfl |-> None, inst |-> None, public_ip |-> None, private_ip |-> None,
     results |-> <<>>]

Emit(st, op, arg) == [st EXCEPT !.trace = Append(@, Step(op, arg, TRUE))]

Raise(st, op, arg) == [st EXCEPT !.trace = Append(@, Step(op, arg, FALSE)), !.exc = TRUE]

\* task.update_state(state=..., meta={'action': ...})
Event(st, what) == Emit(st, "event", what)

\* Lines 292-294.
StImage(st, cfg, f) ==
    IF Fails(f, "images.get") THEN Raise(st, "images.get", None)
    ELSE Emit(st, "images.get", None)

\* A key pair lookup that finds nothing.
FindKeyPairsNone(p, kp_name) == <<>>

\* key_pairs.find(name=kp_name), line 40: the key pairs of that name, in the
\* provider's listing order.
FindKeyPairs(p, kp_name) == SelectSeq(p.keypairs, LAMBDA k : k.name = kp_name)

\* A found key pair that still carries its private key.
FoundKeyPairWithMaterial(kp) == [id |-> kp.id, name |-> kp.name, material |-> "private-key"]

\* Line 42: a key pair that find returned; the provider hands out the
\* private key only with the key pair that create returns.
FoundKeyPair(kp) == [id |-> kp.id, name |-> kp.name, material |-> None]

\* _get_or_create_kp, lines 38-45: the private key material is there only on
\* the key pair that key_pairs.create returns.
GetOrCreateKp(st, kp_name, f) ==
    IF Fails(f, "key_pairs.find") THEN Raise(st, "key_pairs.find", kp_name)
    ELSE LET s1  == Emit(st, "key_pairs.find", kp_name)
             kps == FindKeyPairs(st.p, kp_name)
             new == [id |-> KpIds[Len(st.p.keypairs) + 1], name |-> kp_name]
         IN  IF kps /= <<>>
             THEN [s1 EXCEPT !.kp = FoundKeyPair(kps[1])]
             ELSE IF Fails(f, "key_pairs.create") THEN Raise(s1, "key_pairs.create", kp_name)
             ELSE [Emit(s1, "key_pairs.create", kp_name) EXCEPT
                      !.p.keypairs = Append(@, new),
                      !.kp = [id |-> new.id, name |-> kp_name, material |-> "private-key"]]

\* A key-pair stage that reports its progress event after the key pair is
\* there.
StKeyPairEventAfter(st, cfg, f) ==
    IF st.exc THEN st
    ELSE LET r == GetOrCreateKp(st, IF Truthy(cfg.keyPair) THEN cfg.keyPair
                                    ELSE "cloudlaunch-key-pair", f)
         IN  IF r.exc THEN r ELSE Event(r, "Retrieving or creating a key pair")

\* Lines 295-299.
StKeyPair(st, cfg, f) ==
    IF st.exc THEN st
    ELSE GetOrCreateKp(Event(st, "Retrieving or creating a key pair"),
                       IF Truthy(cfg.keyPair) THEN cfg.keyPair ELSE "cloudlaunch-key-pair", f)

\* cloudlaunch_config.get('firewall') is truthy (line 251): the entry is there
\* (cfg.hasFirewall) and is not the empty list.
FirewallGiven(cfg) == cfg.hasFirewall /\ cfg.firewall /= <<>>

\* resolve_launch_properties, lines 239-254, after the event of line 300.
StLaunchProperties(st, cfg, f) ==
    IF st.exc THEN st
    ELSE LET s0 == Event(st, "Applying firewall settings")
             WithFirewalls(s1) ==
                 CHOOSE s2 \in {[s1 EXCEPT !.p = v.p, !.trace = @ \o v.trace,
                                           !.exc = v.exc, !.vmfl = v.ret] :
                                   v \in {ConfigureVmFirewalls(s1.p, s1.subnet, cfg.firewall, f)}} :
                     TRUE
         IN  CHOOSE s3 \in
                 {IF n.exc \/ ~FirewallGiven(cfg)
                  THEN [s0 EXCEPT !.p = n.p, !.trace = @ \o n.trace, !.exc = n.exc,
                                  !.subnet = n.ret]
                  ELSE WithFirewalls([s0 EXCEPT !.p = n.p, !.trace = @ \o n.trace,
                                                !.subnet = n.ret]) :
                     n \in {SetupNetworking(s0.p, cfg.network, cfg.subnet,
                                            cfg.placementZone, f)}} : TRUE

\* Lines 332-343: create the instance and wait until it is ready.  The ready
\* instance has the addresses the provider gives it (f.ip).
CreateAndWait(st, cfg, f) ==
    LET s0   == Event(st, "Launching an instance")
        id   == InstIds[Len(st.p.instances) + 1]
        new  == [id |-> id, state |-> "pending", public_ip |-> None, private_ip |-> None,
                 subnet |-> st.subnet, vmfl |-> st.vmfl]
        s1   == [Emit(s0, "instances.create", id) EXCEPT
                    !.p.instances = Append(@, new), !.inst = id]
        s2   == Event(s1, "Waiting for instance")
        k    == Len(s1.p.instances)
        pub  == IF f.ip = "public" THEN "54.1.2.3" ELSE None
        priv == IF f.ip = "global" THEN "115.146.92.7" ELSE "10.0.0.5"
    IN  IF Fails(f, "instances.create") THEN Raise(s0, "instances.create", None)
        ELSE IF Fails(f, "inst.wait_till_ready")
        THEN [Raise(s2, "inst.wait_till_ready", id) EXCEPT !.p.instances[k].state = "error"]
        ELSE [Emit(s2, "inst.wait_till_ready", id) EXCEPT
                 !.p.instances[k].state = "running",
                 !.p.instances[k].public_ip = pub, !.p.instances[k].private_ip = priv,
                 !.public_ip = pub, !.private_ip = priv]

\* An instance stage that logs and drops what the readiness wait raised.
StInstanceSwallows(st, cfg, f) ==
    IF st.exc THEN st
    ELSE LET r == CreateAndWait(st, cfg, f)
         IN  IF r.inst /= None THEN [r EXCEPT !.exc = FALSE] ELSE r

\* The instance stage of _provision_host: what lines 336 and 343 raise leaves
\* the method.
StInstance(st, cfg, f) == IF st.exc THEN st ELSE CreateAndWait(st, cfg, f)

\* inst.add_floating_ip(ip): the address becomes the instance's public
\* address at the provider and, when it is one of the pool, is in use.
AddFloatingIp(p, inst, ip) ==
    LET k == CHOOSE i \in 1..Len(p.instances) : p.instances[i].id = inst
    IN  [p EXCEPT !.instances[k].public_ip = ip,
                  !.fips = [i \in 1..Len(@) |->
                               IF @[i].ip = ip THEN [@[i] EXCEPT !.in_use = TRUE] ELSE @[i]]]

\* A static IP stage that leaves out inst.refresh(): the run goes on with the
\* addresses the instance reported at the end of the wait.
StStaticIpNoRefresh(st, cfg, f) ==
    IF st.exc \/ ~Truthy(cfg.staticIP) THEN st
    ELSE LET s0 == Event(st, "Assigning requested floating IP")
             s1 == [Emit(s0, "inst.add_floating_ip@static", cfg.staticIP) EXCEPT
                       !.p = AddFloatingIp(@, st.inst, cfg.staticIP)]
         IN  IF Fails(f, "inst.add_floating_ip@static")
             THEN Raise(s0, "inst.add_floating_ip@static", cfg.staticIP)
             ELSE s1

\* Lines 344-350: the requested static IP, then inst.refresh().
StStaticIp(st, cfg, f) ==
    IF st.exc \/ ~Truthy(cfg.staticIP) THEN st
    ELSE LET s0 == Event(st, "Assigning requested floating IP")
             s1 == [Emit(s0, "inst.add_floating_ip@static", cfg.staticIP) EXCEPT
                       !.p = AddFloatingIp(@, st.inst, cfg.staticIP)]
         IN  IF Fails(f, "inst.add_floating_ip@static")
             THEN Raise(s0, "inst.add_floating_ip@static", cfg.staticIP)
             ELSE IF Fails(f, "inst.refresh") THEN Raise(s1, "inst.refresh", st.inst)
             ELSE [Emit(s1, "inst.refresh", st.inst) EXCEPT !.public_ip = cfg.staticIP]

\* attach_public_ip, lines 76-109, for an instance whose reported addresses
\* are public_ip and private_ip.  networks.get answers None for no network id,
\* and None.gateways raises.
AttachPublicIp(p, inst, public_ip, private_ip, network_id, f) ==
    LET sNet  == Step("networks.get@ip", network_id, TRUE)
        sGw   == Step("gateways.get_or_create_inet_gateway@ip", network_id, TRUE)
        sLs   == Step("gateway.floating_ips", network_id, TRUE)
        p1    == [p EXCEPT !.gateways = @ \cup {network_id}]
        free  == UnusedFloatingIps(p1)
        new   == [ip |-> NewFips[Len(p1.fips) + 1], in_use |-> FALSE]
        p2    == [p1 EXCEPT !.fips = Append(@, new)]
        sMk   == Step("floating_ips.create", new.ip, TRUE)
        sAdd(ip) == Step("inst.add_floating_ip", ip, TRUE)
    IN  IF Truthy(public_ip) THEN Outcome(p, public_ip, FALSE, <<>>)
        ELSE IF IsGlobal(private_ip) THEN Outcome(p, private_ip, FALSE, <<>>)
        ELSE IF Fails(f, "networks.get@ip") \/ network_id \notin NetIds
             THEN Outcome(p, None, TRUE, Raised(<<sNet>>))
        ELSE IF Fails(f, "gateways.get_or_create_inet_gateway@ip")
             THEN Outcome(p, None, TRUE, Raised(<<sNet, sGw>>))
        ELSE IF Fails(f, "gateway.floating_ips")
             THEN Outcome(p1, None, TRUE, Raised(<<sNet, sGw, sLs>>))
        ELSE IF free /= <<>>
             THEN IF Fails(f, "inst.add_floating_ip")
                  THEN Outcome(p1, None, TRUE, Raised(<<sNet, sGw, sLs, sAdd(free[1].ip)>>))
                  ELSE Outcome(AddFloatingIp(p1, inst, free[1].ip), free[1].ip, FALSE,
                               <<sNet, sGw, sLs, sAdd(free[1].ip)>>)
        ELSE IF Fails(f, "floating_ips.create")
             THEN Outcome(p1, None, TRUE, Raised(<<sNet, sGw, sLs, sMk>>))
        ELSE IF Fails(f, "inst.add_floating_ip")
             THEN Outcome(p2, None, TRUE, Raised(<<sNet, sGw, sLs, sMk, sAdd(new.ip)>>))
        ELSE Outcome(AddFloatingIp(p2, inst, new.ip), new.ip, FALSE,
                     <<sNet, sGw, sLs, sMk, sAdd(new.ip)>>)

\* The firewall of the provider with that id.
FirewallById(p, id) == p.firewalls[FwIndex(p, id)]

\* Lines 351-364: the results.  vmfl[0] raises when no firewall was resolved
\* (vmfl is None), before the public address is looked for.
StResults(st, cfg, f) ==
    IF st.exc THEN st
    ELSE IF st.vmfl = None THEN Raise(st, "vmfl[0]", None)
    ELSE LET a   == AttachPublicIp(st.p, st.inst, st.public_ip, st.private_ip,
                                   NetworkIdOf(st.subnet), f)
             s1  == [st EXCEPT !.p = a.p, !.trace = @ \o a.trace, !.exc = a.exc]
             res == [keyPair |-> st.kp,
                     securityGroup |-> [id |-> st.vmfl[1],
                                        name |-> FirewallById(st.p, st.vmfl[1]).label],
                     instance |-> [id |-> st.inst],
                     publicIP |-> a.ret]
         IN  IF a.exc THEN s1
             ELSE [Event(s1, "Instance created successfully") EXCEPT !.results = res]

\* _provision_host, lines 285-364.  The launch configuration and the user
\* data (lines 304-331) are composed locally, without a call to the provider.
\* Each stage works on the one state its predecessor left.
ProvisionHost(p, cfg, f) ==
    CHOOSE s6 \in {StResults(s5, cfg, f) :
               s5 \in {StStaticIp(s4, cfg, f) :
                  s4 \in {StInstance(s3, cfg, f) :
                     s3 \in {StLaunchProperties(s2, cfg, f) :
                        s2 \in {StKeyPair(s1, cfg, f) :
                           s1 \in {StImage(RunStart(p), cfg, f)}}}}}} : TRUE

\* What configurer.configure returns under 'cloudLaunch': nothing, or the
\* address and URL of the configured application.
ConfDict(conf) ==
    IF conf = "app"
    THEN [publicIP |-> "198.51.100.7", applicationURL |-> "http://198.51.100.7/"]
    ELSE <<>>

\* A configuration stage that lets the exception of a failed call through.
ConfigureHostRaises(st, cfg, f) ==
    LET s1 == Event(Emit(st, "create_configurer", None), "Validating provider connection info")
        s2 == Event(Emit(s1, "configurer.validate", None), "Configuring application")
        s3 == Event(Emit(s2, "configurer.configure", None),
                    "Application configuration completed successfully")
    IN  IF Fails(f, "create_configurer")
             THEN [st |-> Raise(st, "create_configurer", None), result |-> <<>>]
        ELSE IF Fails(f, "configurer.validate")
             THEN [st |-> Raise(s1, "configurer.validate", None), result |-> <<>>]
        ELSE IF Fails(f, "configurer.configure")
             THEN [st |-> Raise(s2, "configurer.configure", None), result |-> <<>>]
        ELSE [st |-> s3, result |-> ConfDict(f.conf)]

\* A configuration stage that reports a failed validation and goes on to
\* configure.
ConfigureHostGoesOn(st, cfg, f) ==
    LET s1 == Event(Emit(st, "create_configurer", None), "Validating provider connection info")
        v  == IF Fails(f, "configurer.validate")
              THEN [Event(Raise(s1, "configurer.validate", None), "ERROR: Validation failed")
                       EXCEPT !.exc = FALSE]
              ELSE Emit(s1, "configurer.validate", None)
        s2 == Event(v, "Configuring application")
        s3 == Event(Emit(s2, "configurer.configure", None),
                    "Application configuration completed successfully")
    IN  IF Fails(f, "create_configurer")
             THEN [st |-> [Event(Raise(st, "create_configurer", None),
                                 "ERROR: Unable to create app configurer") EXCEPT !.exc = FALSE],
                   result |-> <<>>]
        ELSE IF Fails(f, "configurer.configure")
             THEN [st |-> [Event(Raise(s2, "configurer.configure", None),
                                 "ERROR: Configuration failed") EXCEPT !.exc = FALSE],
                   result |-> <<>>]
        ELSE [st |-> s3, result |-> ConfDict(f.conf)]

\* _configure_host, lines 366-406: no exception leaves it; a failure is
\* reported as an ERROR state and the result is empty.
ConfigureHost(st, cfg, f) ==
    LET s1 == Event(Emit(st, "create_configurer", None), "Validating provider connection info")
        s2 == Event(Emit(s1, "configurer.validate", None), "Configuring application")
        s3 == Event(Emit(s2, "configurer.configure", None),
                    "Application configuration completed successfully")
        err(s, op, what) == [Event(Raise(s, op, None), what) EXCEPT !.exc = FALSE]
    IN  IF Fails(f, "create_configurer")
             THEN [st |-> err(st, "create_configurer", "ERROR: Unable to create app configurer"),
                   result |-> <<>>]
        ELSE IF Fails(f, "configurer.validate")
             THEN [st |-> err(s1, "configurer.validate", "ERROR: Validation failed"),
                   result |-> <<>>]
        ELSE IF Fails(f, "configurer.configure")
             THEN [st |-> err(s2, "configurer.configure", "ERROR: Configuration failed"),
                   result |-> <<>>]
        ELSE [st |-> s3, result |-> ConfDict(f.conf)]

\* A merge in which the left dict's value stays where both have the key.
MergeDictsLeftWins(a, b) ==
    [k \in DOMAIN a \cup DOMAIN b |-> IF k \in DOMAIN a THEN a[k] ELSE b[k]]

\* {**a, **b}: the keys of both, b's value where both have the key.
MergeDicts(a, b) ==
    [k \in DOMAIN a \cup DOMAIN b |-> IF k \in DOMAIN b THEN b[k] ELSE a[k]]

\* deploy, lines 256-283.  With a host address supplied nothing is
\* provisioned; an exception of _provision_host leaves deploy.
Deploy(p, cfg, f) ==
    CHOOSE o \in {IF pr.exc THEN [st |-> pr, ret |-> <<>>]
                  ELSE IF cfg.config_appliance
                  THEN LET c == ConfigureHost(pr, cfg, f)
                       IN  [st |-> c.st, ret |-> MergeDicts(pr.results, c.result)]
                  ELSE [st |-> pr, ret |-> pr.results] :
                     pr \in {IF Truthy(cfg.host_address) THEN RunStart(p)
                             ELSE ProvisionHost(p, cfg, f)}} : TRUE

-----------------------------------------------------------------------------
(* The state machine.                                                      *)

\* No invocation has finished yet.
NoCall == [op |-> "none"]

\* The oracle under which no remote call raises.
NoFail == [ops |-> {}, attach |-> {}, rules |-> {}, ip |-> "public", conf |-> "empty"]

\* The oracles with one failing remote call.
OpFail(op) == [NoFail EXCEPT !.ops = {op}]

AttachFail(s) == [NoFail EXCEPT !.attach = {s}]

\* An oracle counts only when every failure it holds is met by the run: the
\* call it makes raise is made.
OracleMet(f, trace) ==
    /\ \A op \in f.ops : \E i \in 1..Len(trace) : trace[i].op = op /\ ~trace[i].ok
    /\ \A s \in f.attach :
          \E i \in 1..Len(trace) : trace[i] = Step("router.attach_subnet", s, FALSE)
    /\ \A k \in f.rules :
          \E i \in 1..Len(trace) : trace[i] = Step("rules.create", IdxName[k], FALSE)

\* A provider with network n1 and its subnets, nothing else.
EmptyProvider ==
    [subnets |-> {"s1", "s2"}, routers |-> EmptyBag, gateways |-> {},
     firewalls |-> <<>>, fwScoped |-> TRUE,
     keypairs |-> <<>>, instances |-> <<>>, fips |-> <<>>]

Router(net, gw, sns) == [network_id |-> net, gw |-> gw, subnets |-> sns]

\* The bound on the routers of the provider.
MaxRouters == 2

(* setup_networking called on its own. *)

\* What an observer of the provider sees: the subnet is attached to a router
\* of its network.
SubnetOnRouter(routers, subnet) ==
    \E r \in BagToSet(routers) : r.network_id = SubnetNet(subnet) /\ subnet \in r.subnets

\* The subnet has outbound reachability: a router of its network attaches it
\* and has the network's internet gateway attached.
Reachable(p, subnet) ==
    /\ SubnetNet(subnet) \in p.gateways
    /\ \E r \in BagToSet(p.routers) :
          r.network_id = SubnetNet(subnet) /\ subnet \in r.subnets /\ r.gw

AllOk(trace) == \A i \in 1..Len(trace) : trace[i].ok

NetFailures ==
    {NoFail}
    \cup {OpFail(op) : op \in {"subnets.get", "networks.get", "subnets.get_or_create_default",
                               "routers.list", "routers.create", "networks.get@router",
                               "gateways.get_or_create_inet_gateway",
                               "router.attach_gateway", "network.subnets"}}
    \cup {AttachFail(s) : s \in SubnetIds}

NetArgs(net_id, subnet_id, placement) ==
    [net_id |-> net_id, subnet_id |-> subnet_id, placement |-> placement]

\* The argument triples tried: each of the three ways to name a subnet (by
\* id, by network, by default), with and without a placement zone, with ids
\* the provider knows and ids it does not (nx, sx).
NetArgSet ==
    {NetArgs(None, None, None), NetArgs(None, None, ""), NetArgs(None, None, "zb"),
     NetArgs("n1", None, None), NetArgs("n1", None, "zb"), NetArgs("nx", None, ""),
     NetArgs(None, "s1", None), NetArgs("n1", "s1", "zb"), NetArgs("nx", "s1", ""),
     NetArgs(None, "sx", ""), NetArgs("n1", "sx", "zb")}

\* The routers a provider account may hold before the plugin first runs:
\* none, or one router of n1 made by someone else.
InitRouters ==
    {EmptyBag, SetToBag({Router("n1", TRUE, {"s1", "s2"})}),
     SetToBag({Router("n1", FALSE, {"s1"})})}

InitNet ==
    /\ provider \in {[EmptyProvider EXCEPT !.routers = rs, !.subnets = sns,
                                           !.gateways = {r.network_id : r \in {x \in BagToSet(rs) : x.gw}}] :
                        rs \in InitRouters, sns \in {{"s1", "s2"}, {"s1"}}}
    /\ call = NoCall
    /\ tasks = <<>> /\ runs = <<>>

\* made: the subnets for which the calls so far created a router, as many
\* times as they did.
SetupNetworkingCall(args, f) ==
    \E o \in {SetupNetworking(provider, args.net_id, args.subnet_id, args.placement, f)},
       rep \in {call.op = "setup_networking" /\ call.args = args /\ ~call.exc} :
        /\ OracleMet(f, o.trace)
        /\ BagCardinality(o.p.routers) <= MaxRouters
        /\ UNCHANGED <<tasks, runs>>
        /\ provider' = o.p
        /\ call' = [op |-> "setup_networking", args |-> args,
                    ret |-> o.ret, exc |-> o.exc, trace |-> o.trace,
                    attachedBefore |-> o.ret /= None /\ SubnetOnRouter(provider.routers, o.ret),
                    routersBefore |-> BagCardinality(provider.routers),
                    repeat |-> rep, prevRet |-> IF rep THEN call.ret ELSE None,
                    made |-> (IF call.op = "none" THEN EmptyBag ELSE call.made)
                             (+) (IF \E i \in 1..Len(o.trace) :
                                        o.trace[i].op = "routers.create" /\ o.trace[i].ok
                                  THEN SetToBag({o.ret}) ELSE EmptyBag)]

NextNet ==
    \E args \in NetArgSet, f \in NetFailures : SetupNetworkingCall(args, f)

SpecNet == InitNet /\ [][NextNet]_vars

(* configure_vm_firewalls called on its own. *)

\* The bound on the firewalls of the provider.
MaxFirewalls == 2

Rule(from, to, cidr, src_group) ==
    [from |-> from, to |-> to, protocol |-> "tcp", cidr |-> cidr, src_group |-> src_group]

\* The rules of the docstring's example (lines 118-143), and one whose port
\* is no number.
RuleSsh == Rule("22", "22", "0.0.0.0/0", None)

RuleSelf == Rule("1", "65535", None, "MyApp")

RuleOther == Rule("80", "80", None, "fw-other-id")

RuleBad == Rule("http", "80", "0.0.0.0/0", None)

Group(name, rules) == [securityGroup |-> name, rules |-> rules]

\* The firewall specifications tried: none, one group, one unnamed group, two
\* groups.
FirewallSpecs ==
    {<<>>,
     <<Group("MyApp", <<RuleSsh, RuleBad, RuleSelf>>)>>,
     <<Group(None, <<RuleBad, RuleSsh>>)>>,
     <<Group(None, <<RuleOther>>), Group("MyApp", <<RuleSsh>>)>>}

RuleFail(ks) == [NoFail EXCEPT !.rules = ks]

FwFailures ==
    {NoFail, OpFail("vm_firewalls.find"), OpFail("vm_firewalls.create")}
    \cup {RuleFail(ks) : ks \in (SUBSET {1, 2, 3}) \ {{}}}

Firewall(id, label, network_id) ==
    [id |-> id, label |-> label, network_id |-> network_id, rules |-> {}]

\* The firewalls an account may hold before the plugin first runs.
InitFirewalls ==
    {<<>>, <<Firewall("fw1", "MyApp", None)>>, <<Firewall("fw1", "MyApp", "nd")>>}

InitFw ==
    /\ \E sc \in BOOLEAN, fws \in InitFirewalls :
          \* a provider that keeps no network on its firewalls reports none
          /\ sc \/ \A i \in 1..Len(fws) : fws[i].network_id = None
          /\ provider = [EmptyProvider EXCEPT !.firewalls = fws, !.fwScoped = sc]
    /\ call = NoCall
    /\ tasks = <<>> /\ runs = <<>>

\* What an observer of the provider sees: the firewalls with that label that
\* match the network (line 59's test).
MatchingFirewalls(p, label, network_id) ==
    {i \in 1..Len(p.firewalls) :
        /\ p.firewalls[i].label = label
        /\ p.firewalls[i].network_id \in {None, network_id}}

ConfigureVmFirewallsCall(subnet, firewall, f) ==
    \E o \in {ConfigureVmFirewalls(provider, subnet, firewall, f)},
       args \in {[subnet |-> subnet, firewall |-> firewall]} :
      \E rep \in {call.op = "configure_vm_firewalls" /\ call.args = args /\ ~call.exc} :
        /\ OracleMet(f, o.trace)
        /\ Len(o.p.firewalls) <= MaxFirewalls
        /\ UNCHANGED <<tasks, runs>>
        /\ provider' = o.p
        /\ call' = [op |-> "configure_vm_firewalls", args |-> args,
                    ret |-> o.ret, exc |-> o.exc, trace |-> o.trace,
                    firewallsBefore |-> provider.firewalls,
                    repeat |-> rep, prevRet |-> IF rep THEN call.ret ELSE None]

NextFw ==
    \E subnet \in {None, "s1"}, firewall \in FirewallSpecs, f \in FwFailures :
        ConfigureVmFirewallsCall(subnet, firewall, f)

SpecFw == InitFw /\ [][NextFw]_vars

(* One deploy run. *)

Config(net, hasFw, fw, static, appliance, host) ==
    [network |-> net.net_id, subnet |-> net.subnet_id, placementZone |-> net.placement,
     hasFirewall |-> hasFw, firewall |-> fw, keyPair |-> None, staticIP |-> static,
     config_appliance |-> appliance, host_address |-> host]

\* The deployment requests tried: the ways to name the subnet, no firewall
\* entry / an empty one / one group / two groups, with and without a static
\* IP, with and without post-launch configuration, and with a host supplied.
DeployFirewalls ==
    {<<FALSE, <<>> >>, <<TRUE, <<>> >>,
     <<TRUE, <<Group("MyApp", <<RuleSsh, RuleBad, RuleSelf>>)>> >>,
     <<TRUE, <<Group(None, <<RuleOther>>), Group("MyApp", <<RuleSsh>>)>> >>}

DeployConfigs ==
    {Config(net, fw[1], fw[2], static, ah[1], ah[2]) :
        net \in {NetArgs(None, None, ""), NetArgs(None, "s1", ""), NetArgs(None, "sx", ""),
                 NetArgs("n1", None, "zb"), NetArgs("nx", None, "")},
        fw \in DeployFirewalls,
        static \in {None, "fip-static"},
        ah \in {<<FALSE, None>>, <<TRUE, None>>, <<TRUE, "203.0.113.9">>}}

\* The remote calls whose exception is logged and dropped by setup_networking.
SwallowedOps ==
    {"routers.list", "routers.create", "networks.get@router",
     "gateways.get_or_create_inet_gateway", "router.attach_gateway", "network.subnets"}

\* The remote calls whose exception leaves _provision_host.
FatalOps ==
    {"images.get", "key_pairs.find", "key_pairs.create", "subnets.get", "networks.get",
     "subnets.get_or_create_default", "vm_firewalls.find", "vm_firewalls.create",
     "instances.create", "inst.wait_till_ready", "inst.add_floating_ip@static", "inst.refresh",
     "networks.get@ip", "gateways.get_or_create_inet_gateway@ip", "gateway.floating_ips",
     "floating_ips.create", "inst.add_floating_ip"}

\* The remote calls of the configuration stage.
ConfigurerOps == {"create_configurer", "configurer.validate", "configurer.configure"}

\* What configure may return under 'cloudLaunch'.
ConfResults == {"empty", "app"}

IpKinds == {"public", "global", "private"}

\* The oracles tried: no failure or one failing call, for each kind of address
\* and each configure result; and one dropped failure (of a call, of a rule
\* or of a subnet attachment) together with one later failure.
DeployFailures ==
    {[ops |-> ops, attach |-> {}, rules |-> {}, ip |-> ip, conf |-> conf] :
        ops \in {{}} \cup {{op} : op \in SwallowedOps \cup FatalOps \cup ConfigurerOps},
        ip \in IpKinds, conf \in ConfResults}
    \cup {[ops |-> ops, attach |-> at, rules |-> rs, ip |-> "private", conf |-> "empty"] :
            ops \in {{}, {"routers.create"}, {"router.attach_gateway"}, {"instances.create"},
                     {"router.attach_gateway", "inst.wait_till_ready"},
                     {"routers.list", "instances.create"},
                     {"gateways.get_or_create_inet_gateway", "configurer.validate"}},
            at \in {{}, {"s1"}}, rs \in {{}, {1}, {1, 3}}}

\* The oracle's address kind and configure result count only in a run that
\* gets to use them.
OracleUsed(f, trace) ==
    /\ f.ip /= "public" => \E i \in 1..Len(trace) : trace[i].op = "inst.wait_till_ready" /\ trace[i].ok
    /\ f.conf /= "empty" => \E i \in 1..Len(trace) : trace[i].op = "configurer.configure" /\ trace[i].ok

\* The accounts a deploy run may start from.
Init ==
    /\ provider \in {[EmptyProvider EXCEPT !.keypairs = kps, !.routers = rs,
                                           !.gateways = {r.network_id : r \in {x \in BagToSet(rs) : x.gw}},
                                           !.fips = fips] :
                        kps \in {<<>>, <<[id |-> "kp-1", name |-> "cloudlaunch-key-pair"]>>},
                        rs \in {EmptyBag, SetToBag({Router("n1", TRUE, {"s1", "s2"})})},
                        fips \in {<<>>, <<[ip |-> "fip1", in_use |-> TRUE], [ip |-> "fip2", in_use |-> FALSE]>>}}
    /\ call = NoCall
    /\ tasks = <<>> /\ runs = <<>>

DeployRun(cfg, f) ==
    /\ call.op = "none"
    /\ \E o \in {Deploy(provider, cfg, f)} :
        /\ OracleMet(f, o.st.trace)
        /\ OracleUsed(f, o.st.trace)
        /\ UNCHANGED <<tasks, runs>>
        /\ provider' = o.st.p
        /\ call' = [op |-> "deploy", cfg |-> cfg, f |-> f, pre |-> provider,
                    ret |-> o.ret, exc |-> o.st.exc, trace |-> o.st.trace,
                    kp |-> o.st.kp, subnet |-> o.st.subnet, vmfl |-> o.st.vmfl,
                    inst |-> o.st.inst]

Next == \E cfg \in DeployConfigs, f \in DeployFailures : DeployRun(cfg, f)

Spec == Init /\ [][Next]_vars

-----------------------------------------------------------------------------
(* Network resolution: claims C5, C6, C8 (SpecNet).                        *)

IsNetCall == call.op = "setup_networking"

\* C5: whenever setup_networking returns a subnet and no provider call
\* failed, the subnet is attached to a router of its network and that router
\* has the network's internet gateway attached, on the creating path and on
\* the early-return path alike.
C5_ReturnedSubnetReachable ==
    (IsNetCall /\ ~call.exc /\ call.ret /= None /\ AllOk(call.trace))
        => Reachable(provider, call.ret)

\* C6: a second setup_networking call with the same network id, subnet id and
\* placement zone returns the same subnet id as the first, and creates no
\* router when the subnet was already attached to a router of its network.
C6_NetworkResolutionIdempotent ==
    (IsNetCall /\ call.repeat /\ ~call.exc)
        => /\ call.ret = call.prevRet
           /\ call.attachedBefore => BagCardinality(provider.routers) = call.routersBefore

\* C6's case: the repeated call found the default subnet, which only a router
\* made by an earlier call attaches, and returned it again.
C6_Witness ==
    /\ IsNetCall /\ call.repeat /\ ~call.exc
    /\ call.attachedBefore /\ call.ret = "sd" /\ call.prevRet = "sd"

\* The first subnet of the network in the zone, as the provider lists them.
FirstInZone(p, n, zone) ==
    LET hits == SelectSeq(SubnetOrder,
                          LAMBDA s : s \in p.subnets /\ SubnetNet(s) = n /\ SubnetZone(s) = zone)
    IN  IF hits = <<>> THEN None ELSE hits[1]

\* C8: subnet selection follows three exclusive cases: by subnet id whatever
\* the network id and zone; else, with a network id, a subnet of that network
\* (the first of the placement zone when one is given); else the provider's
\* default subnet, requested for the zone with a missing zone passed as ''.
C8_SubnetSelectionCases ==
    (IsNetCall /\ ~call.exc) =>
        IF Truthy(call.args.subnet_id)
        THEN /\ call.trace[1] = Step("subnets.get", call.args.subnet_id, TRUE)
             /\ call.ret \in {call.args.subnet_id, None}
        ELSE IF Truthy(call.args.net_id)
        THEN /\ call.ret /= None
             /\ SubnetNet(call.ret) = call.args.net_id
             /\ Truthy(call.args.placement)
                   => call.ret = FirstInZone(provider, call.args.net_id, call.args.placement)
        ELSE /\ call.trace[1] = Step("subnets.get_or_create_default",
                                     IF call.args.placement = None THEN "" ELSE call.args.placement,
                                     TRUE)
             /\ call.ret = "sd"

-----------------------------------------------------------------------------
(* Firewall resolution: claims C9, C10 (SpecFw).                           *)

IsFwCall == call.op = "configure_vm_firewalls" /\ call.args.firewall /= <<>>

\* The steps of a trace that handle a rule: the port conversion that raised,
\* or the rules.create call.
RuleSteps(trace) == SelectSeq(trace, LAMBDA st : st.op \in {"int", "rules.create"})

\* The lookup and the creation of the group did not raise.
GroupResolved(trace) ==
    \A i \in 1..Len(trace) :
        trace[i].op \in {"vm_firewalls.find", "vm_firewalls.create"} => trace[i].ok

\* C9: firewall group resolution is idempotent.  A group is created exactly
\* when no group of that label had the subnet's network id or no network id;
\* after a creation exactly one group of the label matches the scope; a
\* resolution that finds a match leaves the provider's groups as they were;
\* and a repeated resolution (same name, same subnet) creates nothing and
\* returns the same group.
C9_FirewallResolutionIdempotent ==
    IsFwCall =>
        LET name    == VmfName(call.args.firewall[1])
            net     == NetworkIdOf(call.args.subnet)
            before  == MatchingFirewalls([firewalls |-> call.firewallsBefore], name, net)
            after   == MatchingFirewalls(provider, name, net)
            created == Len(provider.firewalls) > Len(call.firewallsBefore)
        IN  /\ Len(provider.firewalls) \in {Len(call.firewallsBefore), Len(call.firewallsBefore) + 1}
            /\ call.exc => ~created
            /\ ~call.exc => /\ created <=> before = {}
                            /\ created => Cardinality(after) = 1
                            /\ ~created => after = before
                            /\ \E i \in after : call.ret = <<provider.firewalls[i].id>>
                            /\ call.repeat => ~created /\ call.ret = call.prevRet

\* C9's case: a repeated resolution for a subnet of n1 returned the group of
\* network n1 that an earlier resolution had created, and created none.
C9_Witness ==
    /\ IsFwCall /\ ~call.exc
    /\ call.repeat /\ call.args.subnet = "s1" /\ call.firewallsBefore = provider.firewalls
    /\ \E i \in 1..Len(provider.firewalls) :
          /\ provider.firewalls[i].network_id = "n1"
          /\ call.ret = <<provider.firewalls[i].id>>

\* C10: every rule of the reconciled group is attempted exactly once, in the
\* order of the specification, whichever rules failed; no rule failure leaves
\* configure_vm_firewalls as an exception, and the resolved group is returned.
C10_RulesBestEffort ==
    (IsFwCall /\ GroupResolved(call.trace)) =>
        LET rules == call.args.firewall[1].rules
            steps == RuleSteps(call.trace)
        IN  /\ ~call.exc
            /\ call.ret /= None /\ Len(call.ret) = 1
            /\ Len(steps) = Len(rules)
            /\ \A i \in 1..Len(steps) : steps[i].arg = IdxName[i]

\* C10's case: the first rule met a provider error, the second a port that is
\* no number, and the third was still created.
C10_Witness ==
    /\ IsFwCall /\ ~call.exc
    /\ RuleSteps(call.trace) = <<Step("rules.create", "1", FALSE), Step("int", "2", FALSE),
                                 Step("rules.create", "3", TRUE)>>
    /\ \E i \in 1..Len(provider.firewalls) :
          /\ call.ret = <<provider.firewalls[i].id>>
          /\ \E r \in provider.firewalls[i].rules : r.src_dest_fw /= None

-----------------------------------------------------------------------------
(* Deploy runs one after the other on one account (SpecRuns).  call keeps, *)
(* besides the last run, what the runs so far returned about key pairs:    *)
(* created, the ids of the key pairs the runs created; reported, the pairs *)
(* <<name, id>> of the results' keyPair entries; and material, for each    *)
(* key pair id the number of results that carried its private key.         *)

MaxRuns == 3

KpNames == {"cloudlaunch-key-pair", "my-kp"}

\* The requests of the runs: the default key pair name or a configured one,
\* with one firewall group or with no firewall entry.
RunConfigs ==
    {[Config(NetArgs(None, None, ""), fw[1], fw[2], None, FALSE, None) EXCEPT !.keyPair = kp] :
        kp \in {None, "my-kp"},
        fw \in {<<FALSE, <<>> >>, <<TRUE, <<Group("MyApp", <<RuleSsh>>)>> >>}}

RunFailures ==
    {NoFail, OpFail("key_pairs.find"), OpFail("key_pairs.create"), OpFail("instances.create")}

NoRuns ==
    [op |-> "none", n |-> 0, created |-> {}, reported |-> {}, material |-> [i \in {} |-> 0]]

InitRuns ==
    /\ provider \in {EmptyProvider,
                     [EmptyProvider EXCEPT
                         !.keypairs = <<[id |-> "kp-1", name |-> "cloudlaunch-key-pair"]>>]}
    /\ call = NoRuns
    /\ tasks = <<>> /\ runs = <<>>

\* One more deploy run, after the last one has returned or raised.
NextRun(cfg, f) ==
    /\ call.n < MaxRuns
    /\ \E o \in {Deploy(provider, cfg, f)} :
        /\ OracleMet(f, o.st.trace)
        /\ UNCHANGED <<tasks, runs>>
        /\ provider' = o.st.p
        /\ \E returned \in {~o.st.exc /\ "keyPair" \in DOMAIN o.ret} :
           \E id \in {IF returned THEN o.ret.keyPair.id ELSE None} :
             call' = [op |-> "deploy", n |-> call.n + 1, cfg |-> cfg, f |-> f, pre |-> provider,
                      ret |-> o.ret, exc |-> o.st.exc, trace |-> o.st.trace,
                      kp |-> o.st.kp, subnet |-> o.st.subnet, vmfl |-> o.st.vmfl,
                      inst |-> o.st.inst,
                      created |-> IF Len(o.st.p.keypairs) > Len(provider.keypairs)
                                  THEN call.created \cup {o.st.kp.id}
                                  ELSE call.created,
                      reported |-> IF returned
                                   THEN call.reported \cup {<<o.ret.keyPair.name, id>>}
                                   ELSE call.reported,
                      material |-> IF returned /\ o.ret.keyPair.material /= None
                                   THEN [i \in DOMAIN call.material \cup {id} |->
                                            IF i = id
                                            THEN (IF id \in DOMAIN call.material
                                                  THEN call.material[id] ELSE 0) + 1
                                            ELSE call.material[i]]
                                   ELSE call.material]

NextRuns == \E cfg \in RunConfigs, f \in RunFailures : NextRun(cfg, f)

SpecRuns == InitRuns /\ [][NextRuns]_vars

-----------------------------------------------------------------------------
(* attach_public_ip alone (SpecIp): sequential calls for the ready         *)
(* instances of an account.                                                *)

MaxFips == 3

\* A ready instance with the addresses the provider reports for it.
ReadyInstance(id, public_ip, private_ip) ==
    [id |-> id, state |-> "running", public_ip |-> public_ip, private_ip |-> private_ip,
     subnet |-> "s1", vmfl |-> <<"fw1">>]

\* The instances tried: one with a public address, one with a globally
\* routable private address, and two with neither.
InitInstances ==
    {<<ReadyInstance("i1", "54.1.2.3", "10.0.0.5"), ReadyInstance("i2", None, "10.0.0.6")>>,
     <<ReadyInstance("i1", None, "115.146.92.7"), ReadyInstance("i2", None, "10.0.0.6")>>,
     <<ReadyInstance("i1", None, "10.0.0.5"), ReadyInstance("i2", None, "10.0.0.6")>>}

\* The floating IPs of the account: none, one unused, one in use and one
\* unused.
InitFips ==
    {<<>>,
     <<[ip |-> "fip1", in_use |-> FALSE]>>,
     <<[ip |-> "fip1", in_use |-> TRUE], [ip |-> "fip2", in_use |-> FALSE]>>}

IpFailures ==
    {NoFail}
    \cup {OpFail(op) : op \in {"networks.get@ip", "gateways.get_or_create_inet_gateway@ip",
                               "gateway.floating_ips", "floating_ips.create",
                               "inst.add_floating_ip"}}

InitIp ==
    /\ provider \in {[EmptyProvider EXCEPT !.instances = is, !.fips = fs] :
                        is \in InitInstances, fs \in InitFips}
    /\ call = NoCall
    /\ tasks = <<>> /\ runs = <<>>

\* attach_public_ip(provider, inst, network_id) for the k-th instance, which
\* reports the addresses the provider holds for it.
AttachPublicIpCall(k, network_id, f) ==
    \E inst \in {provider.instances[k]} :
      \E o \in {AttachPublicIp(provider, inst.id, inst.public_ip, inst.private_ip,
                               network_id, f)} :
        /\ OracleMet(f, o.trace)
        /\ Len(o.p.fips) <= MaxFips
        /\ UNCHANGED <<tasks, runs>>
        /\ provider' = o.p
        /\ call' = [op |-> "attach_public_ip", k |-> k, network_id |-> network_id,
                    ret |-> o.ret, exc |-> o.exc, trace |-> o.trace, pre |-> provider]

NextIp ==
    \E k \in 1..Len(provider.instances), network_id \in {"n1", None}, f \in IpFailures :
        AttachPublicIpCall(k, network_id, f)

SpecIp == InitIp /\ [][NextIp]_vars

-----------------------------------------------------------------------------
(* The lifecycle operations on a deployment record (SpecLife).  A record   *)
(* is [launch_status, iid]: iid is the value under                         *)
(* launch_result.cloudLaunch.instance.id, None when a key of the path is   *)
(* missing.                                                                *)

\* An instance id taken from the record whatever its launch status.
GetDeploymentIidAnyStatus(deployment) == deployment.iid

\* _get_deployment_iid, lines 411-430.
GetDeploymentIid(deployment) ==
    IF deployment.launch_status = "SUCCESS" THEN deployment.iid ELSE None

\* provider.compute.instances.get(iid): the positions of the instance, none
\* when the provider has no such instance (get answers None).
InstanceAt(p, iid) == {i \in 1..Len(p.instances) : p.instances[i].id = iid}

SetInstanceState(p, iid, state) ==
    [p EXCEPT !.instances = [i \in 1..Len(@) |->
                                IF @[i].id = iid THEN [@[i] EXCEPT !.state = state] ELSE @[i]]]

\* A health check that answers with the state the instance was launched to.
HealthCheckAssumesRunning(p, deployment, f) ==
    LET iid  == GetDeploymentIid(deployment)
        sGet == Step("instances.get", iid, TRUE)
    IN  IF ~Truthy(iid)
             THEN Outcome(p, [instance_status |-> "deployment_not_found"], FALSE, <<>>)
        ELSE IF Fails(f, "instances.get") THEN Outcome(p, None, TRUE, Raised(<<sGet>>))
        ELSE IF InstanceAt(p, iid) /= {}
             THEN Outcome(p, [instance_status |-> "running"], FALSE, <<sGet>>)
        ELSE Outcome(p, [instance_status |-> "not_found"], FALSE, <<sGet>>)

\* health_check, lines 432-443.
HealthCheck(p, deployment, f) ==
    LET iid  == GetDeploymentIid(deployment)
        sGet == Step("instances.get", iid, TRUE)
    IN  IF ~Truthy(iid)
             THEN Outcome(p, [instance_status |-> "deployment_not_found"], FALSE, <<>>)
        ELSE IF Fails(f, "instances.get") THEN Outcome(p, None, TRUE, Raised(<<sGet>>))
        ELSE IF InstanceAt(p, iid) /= {}
             THEN Outcome(p, [instance_status |->
                                 p.instances[CHOOSE i \in InstanceAt(p, iid) : TRUE].state],
                          FALSE, <<sGet>>)
        ELSE Outcome(p, [instance_status |-> "not_found"], FALSE, <<sGet>>)

\* A restart that answers True for an instance the provider no longer has.
RestartGoneSucceeds(p, deployment, f) ==
    LET iid  == GetDeploymentIid(deployment)
        sGet == Step("instances.get", iid, TRUE)
        sRb  == Step("inst.reboot", iid, TRUE)
    IN  IF ~Truthy(iid) THEN Outcome(p, FALSE, FALSE, <<>>)
        ELSE IF Fails(f, "instances.get") THEN Outcome(p, None, TRUE, Raised(<<sGet>>))
        ELSE IF InstanceAt(p, iid) = {} THEN Outcome(p, TRUE, FALSE, <<sGet>>)
        ELSE IF Fails(f, "inst.reboot") THEN Outcome(p, None, TRUE, Raised(<<sGet, sRb>>))
        ELSE Outcome(SetInstanceState(p, iid, "rebooting"), TRUE, FALSE, <<sGet, sRb>>)

\* restart, lines 445-456.
Restart(p, deployment, f) ==
    LET iid  == GetDeploymentIid(deployment)
        sGet == Step("instances.get", iid, TRUE)
        sRb  == Step("inst.reboot", iid, TRUE)
    IN  IF ~Truthy(iid) THEN Outcome(p, FALSE, FALSE, <<>>)
        ELSE IF Fails(f, "instances.get") THEN Outcome(p, None, TRUE, Raised(<<sGet>>))
        ELSE IF InstanceAt(p, iid) = {} THEN Outcome(p, FALSE, FALSE, <<sGet>>)
        ELSE IF Fails(f, "inst.reboot") THEN Outcome(p, None, TRUE, Raised(<<sGet, sRb>>))
        ELSE Outcome(SetInstanceState(p, iid, "rebooting"), TRUE, FALSE, <<sGet, sRb>>)

\* The instance's state as instances.get reports it.
StateOf(p, iid) == p.instances[CHOOSE i \in InstanceAt(p, iid) : TRUE].state

\* A delete that answers False for an instance the provider no longer has.
DeleteGoneFails(p, trace) == Outcome(p, FALSE, FALSE, trace)

\* delete, lines 478-479: the instance does not exist, "default to True".
DeleteGone(p, trace) == Outcome(p, TRUE, FALSE, trace)

\* A wait that counts the ERROR state among the states waited for.
WaitForIgnoresError(p, iid, f, wait, trace) ==
    LET sWt == Step("inst.wait_for", iid, TRUE)
    IN  IF Fails(f, "inst.wait_for")
             THEN Outcome(SetInstanceState(p, iid, "deleting"), None, TRUE,
                          Raised(trace \o <<sWt>>))
        ELSE IF wait = "unknown"
             THEN Outcome([p EXCEPT !.instances = SelectSeq(@, LAMBDA x : x.id /= iid)],
                          TRUE, FALSE, trace \o <<sWt>>)
        ELSE Outcome(SetInstanceState(p, iid, wait), TRUE, FALSE, trace \o <<sWt>>)

\* inst.wait_for([DELETED, UNKNOWN], terminal_states=[ERROR]) and the return
\* after it, lines 475-477.  wait is what the instance comes to after
\* inst.delete(): "deleted", "unknown" (it is gone from the provider) or
\* "error", the terminal state on which wait_for raises.
WaitFor(p, iid, f, wait, trace) ==
    LET sWt == Step("inst.wait_for", iid, TRUE)
    IN  IF Fails(f, "inst.wait_for")
             THEN Outcome(SetInstanceState(p, iid, "deleting"), None, TRUE,
                          Raised(trace \o <<sWt>>))
        ELSE IF wait = "error"
             THEN Outcome(SetInstanceState(p, iid, "error"), None, TRUE,
                          Raised(trace \o <<sWt>>))
        ELSE IF wait = "unknown"
             THEN Outcome([p EXCEPT !.instances = SelectSeq(@, LAMBDA x : x.id /= iid)],
                          TRUE, FALSE, trace \o <<sWt>>)
        ELSE Outcome(SetInstanceState(p, iid, "deleted"), TRUE, FALSE, trace \o <<sWt>>)

\* delete, lines 458-479.
Delete(p, deployment, f, wait) ==
    LET iid  == GetDeploymentIid(deployment)
        sGet == Step("instances.get", iid, TRUE)
        sDel == Step("inst.delete", iid, TRUE)
    IN  IF ~Truthy(iid) THEN Outcome(p, FALSE, FALSE, <<>>)
        ELSE IF Fails(f, "instances.get") THEN Outcome(p, None, TRUE, Raised(<<sGet>>))
        ELSE IF InstanceAt(p, iid) = {} THEN DeleteGone(p, <<sGet>>)
        ELSE IF Fails(f, "inst.delete") THEN Outcome(p, None, TRUE, Raised(<<sGet, sDel>>))
        ELSE WaitFor(p, iid, f, wait, <<sGet, sDel>>)

\* The deployment records tried: launched or not, with the id of an instance
\* of the account, of one it never had, an empty id, or none.
Deployments ==
    {[launch_status |-> ls, iid |-> iid] :
        ls \in {"SUCCESS", "FAILURE"}, iid \in {None, "", "i1", "i2", "i9"}}

LifeFailures ==
    {NoFail}
    \cup {OpFail(op) : op \in {"instances.get", "inst.reboot", "inst.delete", "inst.wait_for"}}

WaitOutcomes == {"deleted", "unknown", "error"}

InitLife ==
    /\ provider = [EmptyProvider EXCEPT
                      !.instances = <<ReadyInstance("i1", "54.1.2.3", "10.0.0.5"),
                                      ReadyInstance("i2", None, "115.146.92.7")>>]
    /\ call = NoCall
    /\ tasks = <<>> /\ runs = <<>>

\* again: the call before this one was a delete for the same record that
\* returned True.
LifeCall(op, deployment, f, wait, o) ==
    /\ OracleMet(f, o.trace)
    /\ UNCHANGED <<tasks, runs>>
    /\ provider' = o.p
    /\ call' = [op |-> op, deployment |-> deployment, f |-> f, wait |-> wait,
                ret |-> o.ret, exc |-> o.exc, trace |-> o.trace, pre |-> provider,
                again |-> /\ call.op = "delete" /\ call.deployment = deployment
                          /\ ~call.exc /\ call.ret = TRUE]

HealthCheckCall(deployment, f) ==
    \E o \in {HealthCheck(provider, deployment, f)} :
        LifeCall("health_check", deployment, f, "none", o)

RestartCall(deployment, f) ==
    \E o \in {Restart(provider, deployment, f)} :
        LifeCall("restart", deployment, f, "none", o)

\* The wait outcome counts only in a call that comes to wait, and an instance
\* the provider already reports as deleted is in a state waited for: the
\* wait ends on "deleted".
DeleteCall(deployment, f, wait) ==
    \E o \in {Delete(provider, deployment, f, wait)} :
        /\ wait /= "deleted"
              => /\ \E i \in 1..Len(o.trace) : o.trace[i].op = "inst.wait_for"
                 /\ f.ops = {}
                 /\ StateOf(provider, GetDeploymentIid(deployment)) /= "deleted"
        /\ LifeCall("delete", deployment, f, wait, o)

NextLife ==
    \E deployment \in Deployments, f \in LifeFailures :
        \/ HealthCheckCall(deployment, f)
        \/ RestartCall(deployment, f)
        \/ \E wait \in WaitOutcomes : DeleteCall(deployment, f, wait)

SpecLife == InitLife /\ [][NextLife]_vars

-----------------------------------------------------------------------------
(* The deployment tasks of the web API (SpecTasks).  A row of the          *)
(* ApplicationDeploymentTask table is [deployment, action].  The table and *)
(* its queries are those of DeploymentTaskTests; the handler of a POST to  *)
(* the task list of a deployment is modelled by what                       *)
(* test_only_one_launch_task requires of it.                               *)

MaxTasks == 4

DeploymentIds == {"d1", "d2"}

TaskActions == {"LAUNCH", "HEALTH_CHECK", "RESTART", "DELETE"}

Task(d, action) == [deployment |-> d, action |-> action]

\* ApplicationDeploymentTask.objects.filter(deployment=d, action=LAUNCH).
LaunchTasks(table, d) ==
    SelectSeq(table, LAMBDA t : t.deployment = d /\ t.action = "LAUNCH")

\* ApplicationDeploymentTask.objects.create(deployment=d, action=action).
ObjectsCreate(table, d, action) == Append(table, Task(d, action))

Response(table, status, errors) == [tasks |-> table, status |-> status, errors |-> errors]

\* A handler that creates the row without looking for a LAUNCH task.
PostTaskUnchecked(table, d, action) == Response(ObjectsCreate(table, d, action), 201, {})

\* POST {'action': action} to the task list of deployment d: 400 with an
\* error on 'action' and no row when the action is LAUNCH and the deployment
\* has a LAUNCH task, else 201 and the new row.
PostTask(table, d, action) ==
    IF action = "LAUNCH" /\ LaunchTasks(table, d) /= <<>>
    THEN Response(table, 400, {"action"})
    ELSE Response(ObjectsCreate(table, d, action), 201, {})

\* The deployments start as the tests make them: with no task, or with the
\* LAUNCH task created for them.
InitTasks ==
    /\ provider = EmptyProvider
    /\ call = NoCall
    /\ runs = <<>>
    /\ tasks \in {<<>>, ObjectsCreate(<<>>, "d1", "LAUNCH"),
                  ObjectsCreate(ObjectsCreate(<<>>, "d1", "LAUNCH"), "d2", "LAUNCH")}

PostTaskCall(d, action) ==
    \E o \in {PostTask(tasks, d, action)} :
        /\ Len(o.tasks) <= MaxTasks
        /\ tasks' = o.tasks
        /\ call' = [op |-> "post_task", deployment |-> d, action |-> action,
                    status |-> o.status, errors |-> o.errors, before |-> tasks]
        /\ UNCHANGED <<provider, runs>>

NextTasks == \E d \in DeploymentIds, action \in TaskActions : PostTaskCall(d, action)

SpecTasks == InitTasks /\ [][NextTasks]_vars

-----------------------------------------------------------------------------
(* Two deploy runs that launch into network n1 at the same time (SpecRace). *)
(* Each run is a task of its own; the runs share nothing but the provider. *)
(* runs[r] is [pc, inst, fip, ret]: the position of run r in               *)
(* _provision_host and attach_public_ip, and its locals inst and fip.  A   *)
(* step is one remote call of the run; the steps of the two runs           *)
(* interleave freely.                                                      *)

Racers == {1, 2}

RunAt(pc, inst, fip, ret) == [pc |-> pc, inst |-> inst, fip |-> fip, ret |-> ret]

\* The provider's record of the instance with that id.
InstanceById(p, id) == p.instances[CHOOSE k \in 1..Len(p.instances) : p.instances[k].id = id]

\* inst.add_floating_ip(fip) for an address another instance holds, on a
\* provider that re-associates it: the address leaves the other instance.
MoveFloatingIp(p, inst, ip) ==
    [p EXCEPT !.instances = [k \in 1..Len(@) |->
                                IF @[k].id = inst THEN [@[k] EXCEPT !.public_ip = ip]
                                ELSE IF @[k].public_ip = ip THEN [@[k] EXCEPT !.public_ip = None]
                                ELSE @[k]]]

InitRace ==
    /\ provider \in {[EmptyProvider EXCEPT !.fips = fs] : fs \in InitFips}
    /\ call = NoCall
    /\ tasks = <<>>
    /\ runs = [r \in Racers |-> RunAt("launch", None, None, None)]

\* Lines 336-341: instances.create and the readiness wait.
RaceLaunch(r) ==
    /\ runs[r].pc = "launch"
    /\ \E kind \in IpKinds :
         \E id \in {InstIds[Len(provider.instances) + 1]} :
           /\ provider' = [provider EXCEPT !.instances =
                              Append(@, ReadyInstance(id,
                                        IF kind = "public" THEN "54.1.2.3" ELSE None,
                                        IF kind = "global" THEN "115.146.92.7" ELSE "10.0.0.5"))]
           /\ runs' = [runs EXCEPT ![r] = RunAt("tiers", id, None, None)]
    /\ UNCHANGED <<call, tasks>>

\* Lines 87-91: the instance's own public or globally routable address.
RaceTiers(r) ==
    /\ runs[r].pc = "tiers"
    /\ \E i \in {InstanceById(provider, runs[r].inst)} :
         runs' = [runs EXCEPT ![r] =
                     IF Truthy(i.public_ip) THEN RunAt("done", i.id, None, i.public_ip)
                     ELSE IF IsGlobal(i.private_ip) THEN RunAt("done", i.id, None, i.private_ip)
                     ELSE RunAt("gateway", i.id, None, None)]
    /\ UNCHANGED <<provider, call, tasks>>

\* Lines 94-95: the network and its internet gateway.
RaceGateway(r) ==
    /\ runs[r].pc = "gateway"
    /\ provider' = [provider EXCEPT !.gateways = @ \cup {"n1"}]
    /\ runs' = [runs EXCEPT ![r].pc = "scan"]
    /\ UNCHANGED <<call, tasks>>

\* Lines 96-99: one listing of the gateway's floating IPs; fip is the first
\* the listing shows as not in use, None when there is none.
RaceScan(r) ==
    /\ runs[r].pc = "scan"
    /\ \E free \in {UnusedFloatingIps(provider)} :
         runs' = [runs EXCEPT ![r] =
                     IF free /= <<>> THEN RunAt("attach", @.inst, free[1].ip, None)
                     ELSE RunAt("create", @.inst, None, None)]
    /\ UNCHANGED <<provider, call, tasks>>

\* Line 104: gateway.floating_ips.create().
RaceCreate(r) ==
    /\ runs[r].pc = "create"
    /\ \E new \in {[ip |-> NewFips[Len(provider.fips) + 1], in_use |-> FALSE]} :
         /\ provider' = [provider EXCEPT !.fips = Append(@, new)]
         /\ runs' = [runs EXCEPT ![r] = RunAt("attach", @.inst, new.ip, None)]
    /\ UNCHANGED <<call, tasks>>

\* Lines 100-103 and 105-108: inst.add_floating_ip(fip) and the return of
\* fip.public_ip.  For an address that another instance came to hold since
\* the scan the provider either refuses (the call raises and the run ends in
\* an error) or re-associates the address.
RaceAttach(r) ==
    /\ runs[r].pc = "attach"
    /\ \E held \in {\E k \in 1..Len(provider.fips) :
                        provider.fips[k].ip = runs[r].fip /\ provider.fips[k].in_use} :
         \/ /\ ~held
            /\ provider' = AddFloatingIp(provider, runs[r].inst, runs[r].fip)
            /\ runs' = [runs EXCEPT ![r] = RunAt("done", @.inst, @.fip, @.fip)]
         \/ /\ held
            /\ provider' = MoveFloatingIp(provider, runs[r].inst, runs[r].fip)
            /\ runs' = [runs EXCEPT ![r] = RunAt("done", @.inst, @.fip, @.fip)]
         \/ /\ held
            /\ provider' = provider
            /\ runs' = [runs EXCEPT ![r] = RunAt("raised", @.inst, @.fip, None)]
    /\ UNCHANGED <<call, tasks>>

NextRace ==
    \E r \in Racers :
        \/ RaceLaunch(r)
        \/ RaceTiers(r)
        \/ RaceGateway(r)
        \/ RaceScan(r)
        \/ RaceCreate(r)
        \/ RaceAttach(r)

SpecRace == InitRace /\ [][NextRace]_vars

-----------------------------------------------------------------------------
(* The deploy run: claims C1, C2, C3, C4, C7 (Spec).                       *)

IsDeploy == call.op = "deploy"

Has(op) == \E i \in 1..Len(call.trace) : call.trace[i].op = op

HasFailed(op) == \E i \in 1..Len(call.trace) : call.trace[i].op = op /\ ~call.trace[i].ok

Count(op) == Cardinality({i \in 1..Len(call.trace) : call.trace[i].op = op})

LastStep == call.trace[Len(call.trace)]

\* The oracle made no remote call raise.
NoRemoteFailure == call.f.ops = {} /\ call.f.attach = {} /\ call.f.rules = {}

\* C1: a request with no network id, no subnet id, an empty placement zone
\* and no firewall specification (absent or empty) resolves the provider's
\* default subnet, looks up or creates no firewall group, creates the
\* instance with an empty firewall set, and ends with its result, not with an
\* error.
C1_DefaultRequestLaunches ==
    (/\ IsDeploy /\ NoRemoteFailure
     /\ call.cfg.network = None /\ call.cfg.subnet = None /\ call.cfg.placementZone = ""
     /\ ~call.cfg.hasFirewall \/ call.cfg.firewall = <<>>
     /\ ~Truthy(call.cfg.host_address))
        => /\ call.subnet = "sd"
           /\ ~Has("vm_firewalls.find") /\ ~Has("vm_firewalls.create")
           /\ provider.firewalls = call.pre.firewalls
           /\ Count("instances.create") = 1
           /\ ~call.exc
           /\ "instance" \in DOMAIN call.ret

\* C2: when instances.create or the readiness wait fails, the error leaves
\* the deploy run: the failed call is the last step of the run (no static IP,
\* no public address resolution, no configurer call follows), and no run calls
\* instances.create more than once.
C2_CreateOrWaitFailureFatal ==
    IsDeploy =>
        /\ Count("instances.create") <= 1
        /\ (HasFailed("instances.create") \/ HasFailed("inst.wait_till_ready"))
              => /\ call.exc
                 /\ LastStep.op \in {"instances.create", "inst.wait_till_ready"}
                 /\ ~LastStep.ok
                 /\ call.ret = <<>>

\* C2's case: the wait failed in a run that asked for a static IP and for
\* post-launch configuration, after the instance had been created.
C2_Witness ==
    /\ IsDeploy /\ HasFailed("inst.wait_till_ready") /\ Count("instances.create") = 1
    /\ call.cfg.staticIP /= None /\ call.cfg.config_appliance
    /\ Len(provider.instances) = 1

\* The calls that resolve the subnet (lines 204-208).
SubnetOps == {"subnets.get", "networks.get", "subnets.get_or_create_default"}

\* The run came to use a firewall lookup or creation that raised.
FirewallLookupFailed == HasFailed("vm_firewalls.find") \/ HasFailed("vm_firewalls.create")

\* C3 as stated: whenever the subnet resolution of a run ends with no subnet
\* (a lookup raised or yielded no subnet), the run ends in error and
\* instances.create is not called.
C3_NoSubnetIsFatal ==
    (IsDeploy /\ (\E op \in SubnetOps : Has(op)) /\ call.subnet = None)
        => call.exc /\ ~Has("instances.create")

\* C3, amended: a subnet lookup that raises (subnets.get, networks.get or the
\* default-subnet request) is fatal: it is the last step of the run, the run
\* ends in error and instances.create is not called.  A subnets.get that
\* yields no subnet without raising is not fatal: the run goes on with no
\* subnet and calls instances.create unless the firewall lookup raises.
C3_RaisedLookupIsFatal ==
    IsDeploy =>
        /\ (\E op \in SubnetOps : HasFailed(op))
              => /\ call.exc /\ ~Has("instances.create")
                 /\ LastStep.op \in SubnetOps /\ ~LastStep.ok
                 /\ call.subnet = None /\ call.ret = <<>>
        /\ (Has("subnets.get") /\ ~HasFailed("subnets.get") /\ call.subnet = None)
              => Has("instances.create") \/ FirewallLookupFailed

\* C3's case: the lookup of a requested subnet that exists raised, in a run
\* that named a firewall.
C3_Witness ==
    /\ IsDeploy /\ HasFailed("subnets.get") /\ call.cfg.subnet = "s1"
    /\ call.cfg.hasFirewall /\ call.cfg.firewall /= <<>>
    /\ call.exc

\* A step of the reachability block (lines 210-236) that raised.
ReachabilityFailureAt(i) ==
    /\ call.trace[i].op \in SwallowedOps \cup {"router.attach_subnet"}
    /\ ~call.trace[i].ok

\* The subnet that lines 204-208 resolve for the run's request.
ResolvedBefore ==
    ResolveSubnet(call.pre, call.cfg.network, call.cfg.subnet, call.cfg.placementZone, call.f)

\* C7: when a subnet has been resolved and a call of the reachability block
\* (router listing or creation, gateway get-or-create or attachment, subnet
\* attachment) raises, the run goes on: the step after the failed one is the
\* firewall lookup when a firewall is named and the launch event otherwise,
\* the run's subnet is the one resolved before the block, and instances.create
\* is called unless the firewall lookup raises.
C7_ReachabilityFailureSwallowed ==
    IsDeploy =>
        \A i \in 1..Len(call.trace) :
            (ReachabilityFailureAt(i) /\ ~ResolvedBefore.exc /\ ResolvedBefore.ret /= None)
                => /\ i < Len(call.trace)
                   /\ call.trace[i + 1] \in
                         IF call.cfg.hasFirewall /\ call.cfg.firewall /= <<>>
                         THEN {Step("vm_firewalls.find", n, ok) : n \in {"cloudlaunch", "MyApp"},
                                                                ok \in BOOLEAN}
                         ELSE {Step("event", "Launching an instance", TRUE)}
                   /\ call.subnet = ResolvedBefore.ret
                   /\ Has("instances.create") \/ FirewallLookupFailed

\* C7's case: attaching the gateway raised for a resolved subnet, in a run that
\* named a firewall and went on to create its instance.
C7_Witness ==
    /\ IsDeploy /\ HasFailed("router.attach_gateway") /\ call.subnet = "sd"
    /\ call.cfg.hasFirewall /\ Has("vm_firewalls.find") /\ Has("instances.create")
    /\ ~call.exc

\* The stage a step of a run's trace belongs to.
Stage(step) ==
    IF step.op = "event"
    THEN CASE step.arg = "Retrieving or creating a key pair" -> "ev_kp"
           [] step.arg = "Applying firewall settings" -> "ev_fw"
           [] step.arg = "Launching an instance" -> "ev_launch"
           [] step.arg = "Waiting for instance" -> "ev_wait"
           [] step.arg = "Assigning requested floating IP" -> "ev_static"
           [] step.arg = "Instance created successfully" -> "ev_success"
           [] step.arg = "Validating provider connection info" -> "ev_validate"
           [] step.arg = "Configuring application" -> "ev_configure"
           [] step.arg = "Application configuration completed successfully" -> "ev_done"
           [] OTHER -> "ev_error"
    ELSE CASE step.op = "images.get" -> "image"
           [] step.op \in {"key_pairs.find", "key_pairs.create"} -> "kp"
           [] step.op \in SubnetOps -> "subnet"
           [] step.op \in SwallowedOps \cup {"router.attach_subnet"} -> "router"
           [] step.op \in {"vm_firewalls.find", "vm_firewalls.create", "rules.create", "int"}
                -> "firewall"
           [] step.op = "instances.create" -> "create"
           [] step.op = "inst.wait_till_ready" -> "wait"
           [] step.op \in {"inst.add_floating_ip@static", "inst.refresh"} -> "static"
           [] step.op = "vmfl[0]" -> "results"
           [] step.op \in {"networks.get@ip", "gateways.get_or_create_inet_gateway@ip",
                           "gateway.floating_ips", "floating_ips.create",
                           "inst.add_floating_ip"} -> "public_ip"
           [] step.op = "create_configurer" -> "configurer"
           [] step.op = "configurer.validate" -> "validate"
           [] step.op = "configurer.configure" -> "configure"
           [] OTHER -> "unknown"

\* The stages of a trace in order, a run of steps of one stage counted once.
RECURSIVE Stages(_)
Stages(trace) ==
    IF trace = <<>> THEN <<>>
    ELSE IF Len(trace) > 1 /\ Stage(trace[1]) = Stage(trace[2]) THEN Stages(Tail(trace))
    ELSE <<Stage(Head(trace))>> \o Stages(Tail(trace))

\* The one order of the stages of provisioning and of configuration.
ProvisionOrder ==
    <<"ev_kp", "kp", "ev_fw", "subnet", "router", "firewall", "ev_launch", "create",
      "ev_wait", "wait", "ev_static", "static", "public_ip", "ev_success">>

ConfigureOrder ==
    <<"configurer", "ev_validate", "validate", "ev_configure", "configure", "ev_done">>

\* The stages the run's request asks for: the firewall stage with a firewall
\* named, the static IP stages with a static IP, the remote calls of the public
\* address resolution when the instance has neither a public nor a globally
\* routable address.
Asked(stage) ==
    CASE stage = "firewall" -> call.cfg.hasFirewall /\ call.cfg.firewall /= <<>>
      [] stage \in {"ev_static", "static"} -> call.cfg.staticIP /= None
      [] stage = "public_ip" -> call.f.ip = "private" /\ call.cfg.staticIP = None
      [] OTHER -> TRUE

ExpectedStages ==
    (IF call.cfg.host_address /= None THEN <<>> ELSE SelectSeq(ProvisionOrder, Asked))
        \o (IF call.cfg.config_appliance THEN ConfigureOrder ELSE <<>>)

\* The steps of the run that belong to the stages of the fixed order: all but
\* the image lookup, made before the key-pair event, and the indexing of the
\* firewall list.
OrderedSteps == SelectSeq(call.trace, LAMBDA s : Stage(s) \notin {"image", "results"})

IsPrefix(s, t) == Len(s) <= Len(t) /\ s = SubSeq(t, 1, Len(s))

-----------------------------------------------------------------------------
(* Firewall rules and groups: claims C11 (SpecFw), C12 (Spec).             *)

\* The ingress rule that a rule of the specification names, for the group
\* `name` resolved to the firewall `id`: from the group itself when src_group
\* is the group's own name, from the group whose id src_group is otherwise,
\* from the rule's cidr when there is no src_group.
NamedIngress(rule, name, id) ==
    [protocol |-> rule.protocol, from_port |-> IntOf(rule.from), to_port |-> IntOf(rule.to),
     cidr |-> IF Truthy(rule.src_group) THEN None ELSE rule.cidr,
     src_dest_fw |-> IF ~Truthy(rule.src_group) THEN None
                     ELSE IF rule.src_group = name THEN id ELSE rule.src_group]

\* The rules of firewall `id` among `fws`, none when it is not there.
RulesOf(fws, id) ==
    IF \E i \in 1..Len(fws) : fws[i].id = id
    THEN fws[CHOOSE i \in 1..Len(fws) : fws[i].id = id].rules
    ELSE {}

\* C11: every ingress rule that a call creates has the source its rule names:
\* the source group that src_group identifies (the reconciled group for its
\* own name, the other group for the id of a different group) and no cidr, or
\* the rule's cidr and no source group when the rule has no src_group.
C11_RuleSourceAsNamed ==
    (IsFwCall /\ ~call.exc) =>
        LET group == call.args.firewall[1]
            id    == call.ret[1]
            made  == {i \in 1..Len(group.rules) :
                         \E k \in 1..Len(call.trace) :
                             call.trace[k] = Step("rules.create", IdxName[i], TRUE)}
            now   == RulesOf(provider.firewalls, id)
            was   == RulesOf(call.firewallsBefore, id)
        IN  /\ \A i \in made : NamedIngress(group.rules[i], VmfName(group), id) \in now
            /\ \A r \in now \ was :
                  \E i \in made : r = NamedIngress(group.rules[i], VmfName(group), id)

\* C12: of a firewall specification with one or more groups a deploy run
\* reconciles the first group only: one lookup, of the first group's name, at
\* most one creation, the rule steps of the first group and no others, a list
\* of exactly that one firewall, no other firewall of the provider touched,
\* and a result whose securityGroup is the id and name of that firewall.
C12_FirstGroupOnly ==
    (/\ IsDeploy /\ call.cfg.hasFirewall /\ call.cfg.firewall /= <<>>
     /\ Has("vm_firewalls.find") /\ GroupResolved(call.trace))
        => LET first == call.cfg.firewall[1]
               id    == call.vmfl[1]
           IN  /\ Count("vm_firewalls.find") = 1 /\ Count("vm_firewalls.create") <= 1
               /\ \A i \in 1..Len(call.trace) :
                     call.trace[i].op \in {"vm_firewalls.find", "vm_firewalls.create"}
                         => call.trace[i].arg = VmfName(first)
               /\ Len(RuleSteps(call.trace)) = Len(first.rules)
               /\ Len(call.vmfl) = 1
               /\ \A i \in 1..Len(provider.firewalls) :
                     \/ provider.firewalls[i].id = id /\ provider.firewalls[i].label = VmfName(first)
                     \/ i <= Len(call.pre.firewalls) /\ provider.firewalls[i] = call.pre.firewalls[i]
               /\ ~call.exc => call.ret.securityGroup = [id |-> id, name |-> VmfName(first)]

\* C12's case: a run with two groups, the first unnamed, ended with the
\* 'cloudlaunch' firewall as its securityGroup and no firewall for the second.
C12_Witness ==
    /\ IsDeploy /\ ~call.exc /\ call.cfg.hasFirewall /\ Len(call.cfg.firewall) = 2
    /\ call.ret.securityGroup.name = "cloudlaunch"
    /\ Len(provider.firewalls) = 1

-----------------------------------------------------------------------------
(* Public address resolution: claims C13, C14 (SpecIp).                    *)

IsIpCall == call.op = "attach_public_ip"

\* The instance of the call as the provider held it before the call.
InstBefore == call.pre.instances[call.k]

\* The floating IPs not in use before the call, as an observer lists them.
FreeBefore == {i \in 1..Len(call.pre.fips) : ~call.pre.fips[i].in_use}

\* The addresses of the floating IPs in use.
InUse(fips) == {fips[i].ip : i \in {j \in 1..Len(fips) : fips[j].in_use}}

\* The instance of the call has no public address and no globally routable
\* private address.
NeedsFloatingIp == InstBefore.public_ip = None /\ InstBefore.private_ip /= "115.146.92.7"

\* C13: when no provider call fails, attach_public_ip returns a non-empty
\* address in each of the four cases: the instance's public address; else its
\* globally routable private address; else the first unused floating IP of
\* the gateway; else a newly allocated floating IP.
C13_AddressInEveryCase ==
    (IsIpCall /\ AllOk(call.trace)) =>
        /\ ~call.exc /\ call.ret /= None /\ call.ret /= ""
        /\ InstBefore.public_ip /= None => call.ret = InstBefore.public_ip
        /\ (InstBefore.public_ip = None /\ InstBefore.private_ip = "115.146.92.7")
              => call.ret = InstBefore.private_ip
        /\ (NeedsFloatingIp /\ FreeBefore /= {})
              => call.ret = call.pre.fips[CHOOSE i \in FreeBefore : \A j \in FreeBefore : i <= j].ip
        /\ (NeedsFloatingIp /\ FreeBefore = {})
              => /\ \A i \in 1..Len(call.pre.fips) : call.pre.fips[i].ip /= call.ret
                 /\ \E i \in 1..Len(provider.fips) : provider.fips[i].ip = call.ret

\* C13's case: the instance had neither address and every floating IP was in
\* use, and the call returned an address that it allocated.
C13_Witness ==
    /\ IsIpCall /\ ~call.exc /\ NeedsFloatingIp
    /\ call.pre.fips /= <<>> /\ FreeBefore = {}
    /\ Len(provider.fips) = Len(call.pre.fips) + 1
    /\ call.ret = provider.fips[Len(provider.fips)].ip

\* C14: with a public address or a globally routable private address the call
\* makes no provider call and leaves the provider as it was; otherwise a call
\* that returns has attached exactly one floating IP to the instance, and a
\* floating IP is allocated only when none was unused.
C14_ChangesOnlyInThirdTier ==
    IsIpCall =>
        /\ ~NeedsFloatingIp => provider = call.pre /\ call.trace = <<>> /\ ~call.exc
        /\ Len(provider.fips) \in {Len(call.pre.fips), Len(call.pre.fips) + 1}
        /\ Len(provider.fips) > Len(call.pre.fips) => FreeBefore = {}
        /\ (NeedsFloatingIp /\ ~call.exc)
              => /\ Cardinality(InUse(provider.fips) \ InUse(call.pre.fips)) = 1
                 /\ InUse(call.pre.fips) \subseteq InUse(provider.fips)
                 /\ call.ret \in InUse(provider.fips) \ InUse(call.pre.fips)
                 /\ provider.instances[call.k].public_ip = call.ret
                 /\ Len(provider.fips) > Len(call.pre.fips) <=> FreeBefore = {}
                 /\ \A j \in 1..Len(provider.instances) :
                       j /= call.k => provider.instances[j] = call.pre.instances[j]

\* C14's case: the instance had neither address, a floating IP was unused,
\* and the call attached it and allocated none.
C14_Witness ==
    /\ IsIpCall /\ ~call.exc /\ NeedsFloatingIp /\ FreeBefore /= {}
    /\ Len(provider.fips) = Len(call.pre.fips)
    /\ provider.instances[call.k].public_ip = call.ret

-----------------------------------------------------------------------------
(* Key pairs over sequential deploy runs: claims C15, C16 (SpecRuns).      *)

\* The key pair name of the run's request, line 297-299.
RunKpName == IF call.cfg.keyPair /= None THEN call.cfg.keyPair ELSE "cloudlaunch-key-pair"

\* The key pairs of that name, as an observer of the provider lists them.
KeyPairsNamed(kps, name) == {i \in 1..Len(kps) : kps[i].name = name}

\* C15: key_pairs.create is called exactly when the lookup found no key pair
\* of the requested name; after any sequence of runs the provider holds at
\* most one key pair of each name, exactly one of the name of a run whose
\* key pair stage went through; a run's result reports the id of that one
\* key pair, and all results for one name report the same id.
C15_KeyPairGetOrCreate ==
    IsDeploy =>
        LET before == KeyPairsNamed(call.pre.keypairs, RunKpName)
            now    == KeyPairsNamed(provider.keypairs, RunKpName)
        IN  /\ Has("key_pairs.create") => before = {}
            /\ (Has("key_pairs.find") /\ ~HasFailed("key_pairs.find") /\ before = {})
                  => Has("key_pairs.create")
            /\ \A n \in KpNames : Cardinality(KeyPairsNamed(provider.keypairs, n)) <= 1
            /\ (Has("key_pairs.find") /\ ~HasFailed("key_pairs.find")
                  /\ ~HasFailed("key_pairs.create")) => Cardinality(now) = 1
            /\ ~call.exc => \E i \in now : call.ret.keyPair.id = provider.keypairs[i].id
            /\ \A n \in KpNames : Cardinality({r \in call.reported : r[1] = n}) <= 1

\* C15's case: a later run found the key pair that an earlier run had
\* created and reported, created none, and reported the same id.
C15_Witness ==
    /\ IsDeploy /\ call.n >= 2 /\ ~call.exc /\ ~Has("key_pairs.create")
    /\ call.ret.keyPair.id \in call.created
    /\ call.ret.keyPair.id \in DOMAIN call.material
    /\ Cardinality(KeyPairsNamed(provider.keypairs, RunKpName)) = 1

\* C16 as stated: the private key of every key pair that a run created has
\* been returned to a caller exactly once.
C16_MaterialExactlyOnce ==
    IsDeploy =>
        \A id \in call.created : id \in DOMAIN call.material /\ call.material[id] = 1

\* C16, amended: the private key of a key pair is returned at most once, and
\* only by the run that created the key pair: a run that returns carries the
\* material exactly when it called key_pairs.create; a run that found the key
\* pair returns none; a creating run that ends in an error returns nothing,
\* and then no run returns that key.
C16_MaterialOnlyFromCreatingRun ==
    IsDeploy =>
        /\ \A id \in DOMAIN call.material : call.material[id] <= 1 /\ id \in call.created
        /\ ~call.exc => (call.ret.keyPair.material /= None <=> Has("key_pairs.create"))
        /\ call.exc => call.ret = <<>>

\* C16's case: a run found a key pair whose material an earlier run had
\* returned, and returned no material.
C16_Witness ==
    /\ IsDeploy /\ call.n >= 2 /\ ~call.exc /\ ~Has("key_pairs.create")
    /\ call.ret.keyPair.material = None
    /\ call.ret.keyPair.id \in DOMAIN call.material
    /\ call.material[call.ret.keyPair.id] = 1

-----------------------------------------------------------------------------
(* The configuration stage and the merged result: claims C17, C18, C19     *)
(* (Spec).                                                                 *)

\* What _provision_host returned to deploy in the run: nothing when a host
\* address was supplied.
ProvisionResult ==
    IF call.cfg.host_address /= None THEN <<>>
    ELSE ProvisionHost(call.pre, call.cfg, call.f).results

\* What _configure_host returned under 'cloudLaunch' in the run.
ConfigureResult ==
    IF Has("configurer.configure") /\ ~HasFailed("configurer.configure")
    THEN ConfDict(call.f.conf)
    ELSE <<>>

ConfigurerFailed == \E op \in ConfigurerOps : HasFailed(op)

\* C17: a failure of the configuration stage (obtaining the configurer,
\* validate, configure) does not leave deploy as an exception: the run's last
\* step is the report of an ERROR state, and deploy returns the provisioning
\* result, field for field (keyPair, securityGroup, instance, publicIP of a
\* provisioned host).
C17_ConfigureFailureContained ==
    (IsDeploy /\ ConfigurerFailed) =>
        /\ ~call.exc
        /\ LastStep.op = "event" /\ Stage(LastStep) = "ev_error"
        /\ call.ret = ProvisionResult
        /\ call.cfg.host_address = None
              => DOMAIN call.ret = {"keyPair", "securityGroup", "instance", "publicIP"}

\* C17's case: configure raised after a host had been provisioned, and the
\* run returned the instance and its address.
C17_Witness ==
    /\ IsDeploy /\ HasFailed("configurer.configure") /\ ~call.exc
    /\ call.cfg.host_address = None
    /\ call.ret.instance.id = call.inst /\ call.ret.publicIP /= None
    /\ Len(provider.instances) = 1

\* C18: configure is called only after validate returned without error in
\* the same run, each at most once, neither unless the request asks for
\* configuration, and no step or event follows the report of an ERROR state.
C18_ValidateThenConfigure ==
    IsDeploy =>
        /\ Count("configurer.validate") <= 1 /\ Count("configurer.configure") <= 1
        /\ \A j \in 1..Len(call.trace) :
              call.trace[j].op = "configurer.configure"
                  => \E i \in 1..(j - 1) : call.trace[i] = Step("configurer.validate", None, TRUE)
        /\ (Has("configurer.validate") \/ Has("configurer.configure")) => call.cfg.config_appliance
        /\ \A i \in 1..Len(call.trace) :
              (call.trace[i].op = "event" /\ Stage(call.trace[i]) = "ev_error")
                  => i = Len(call.trace)

\* C18's case: validate raised, the ERROR state was reported, and configure
\* was not called.
C18_Witness ==
    /\ IsDeploy /\ HasFailed("configurer.validate") /\ ~Has("configurer.configure")
    /\ LastStep = Step("event", "ERROR: Validation failed", TRUE)

\* C19: the result of a run that returns is the key-wise merge of the
\* provisioning result and the configuration result: the keys of both, the
\* configuration value for a key of both, the one value for a key of one.
C19_MergeConfigurationWins ==
    (IsDeploy /\ ~call.exc) =>
        /\ DOMAIN call.ret = DOMAIN ProvisionResult \cup DOMAIN ConfigureResult
        /\ \A k \in DOMAIN ConfigureResult : call.ret[k] = ConfigureResult[k]
        /\ \A k \in DOMAIN ProvisionResult \ DOMAIN ConfigureResult :
              call.ret[k] = ProvisionResult[k]

\* C19's case: both results held publicIP, with different values, and each
\* held a key of its own.
C19_Witness ==
    /\ IsDeploy /\ ~call.exc
    /\ "publicIP" \in DOMAIN ProvisionResult \cap DOMAIN ConfigureResult
    /\ ProvisionResult.publicIP /= ConfigureResult.publicIP
    /\ call.ret.publicIP = ConfigureResult.publicIP
    /\ call.ret.applicationURL = ConfigureResult.applicationURL
    /\ call.ret.instance = ProvisionResult.instance

-----------------------------------------------------------------------------
(* Lifecycle operations: claim C20 (SpecLife).                             *)

IsLifeCall == call.op \in {"health_check", "restart", "delete"}

\* The record yields no instance id: its launch status is not SUCCESS, or its
\* launch result holds no id or an empty one.
NoInstanceId ==
    call.deployment.launch_status /= "SUCCESS" \/ call.deployment.iid \in {None, ""}

\* C20: for a record whose launch status is not SUCCESS or whose result holds
\* no instance id, health_check, restart and delete make no call to the
\* provider, leave it as it was, and return their negative result:
\* 'deployment_not_found', false and false.
C20_NoInstanceIdNoProviderCall ==
    (IsLifeCall /\ NoInstanceId) =>
        /\ call.trace = <<>> /\ provider = call.pre /\ ~call.exc
        /\ call.op = "health_check"
              => call.ret = [instance_status |-> "deployment_not_found"]
        /\ call.op \in {"restart", "delete"} => call.ret = FALSE

\* C20's case: delete for a record that is not SUCCESS and names an instance
\* the provider has, after an earlier call had put that instance in another
\* state than running.
C20_Witness ==
    /\ call.op = "delete" /\ call.deployment = [launch_status |-> "FAILURE", iid |-> "i1"]
    /\ call.ret = FALSE
    /\ \E i \in 1..Len(provider.instances) :
          provider.instances[i].id = "i1" /\ provider.instances[i].state = "rebooting"

-----------------------------------------------------------------------------
(* Lifecycle operations: claims C21 to C25 (SpecLife).                     *)

\* C21: delete on a deployment record from which no instance id is derivable
\* treats the deployment as already deleted and returns success (true).
C21_MissingIdIsSuccess ==
    (call.op = "delete" /\ NoInstanceId) => (~call.exc /\ call.ret = TRUE)

\* The record yields an instance id and the provider, asked for it, reports
\* no such instance.
Vanished ==
    /\ ~NoInstanceId
    /\ "instances.get" \notin call.f.ops
    /\ InstanceAt(call.pre, call.deployment.iid) = {}

\* C22: delete for a record with an instance id the provider reports no
\* instance for returns True without raising, with no inst.delete and no wait
\* (the lookup is its only provider call); and a second delete after a delete
\* that returned True returns True as well when its provider calls answer.
C22_DeleteIdempotentOnVanished ==
    /\ (call.op = "delete" /\ Vanished)
          => /\ ~call.exc /\ call.ret = TRUE /\ provider = call.pre
             /\ Len(call.trace) = 1 /\ call.trace[1].op = "instances.get"
    /\ (call.op = "delete" /\ call.again /\ call.f.ops = {})
          => (~call.exc /\ call.ret = TRUE)

\* C22's case: the second of two deletes of i1, the first of which ended with
\* the instance gone from the provider.
C22_Witness ==
    /\ call.op = "delete" /\ call.again /\ Vanished
    /\ call.deployment.iid = "i1" /\ call.ret = TRUE

\* The record yields an instance id and the provider, asked for it, answers
\* with the instance.
Present ==
    /\ ~NoInstanceId
    /\ "instances.get" \notin call.f.ops
    /\ InstanceAt(call.pre, call.deployment.iid) /= {}

\* The states the provider reports for the record's instance after the call:
\* none when it is gone from the provider (UNKNOWN).
StatesAfter ==
    {provider.instances[i].state : i \in InstanceAt(provider, call.deployment.iid)}

OpsOf(trace) == [i \in 1..Len(trace) |-> trace[i].op]

\* C23: when the instance exists, delete issues inst.delete exactly once and
\* waits after it; it returns True only after the lookup, the delete and the
\* wait, in that order, with the instance then deleted or unknown to the
\* provider; when the instance comes to the ERROR state during the wait the
\* call ends with the wait raising and returns nothing.
C23_DeleteThenWait ==
    (call.op = "delete" /\ Present) =>
        /\ Count("inst.delete") = 1
        /\ ~HasFailed("inst.delete") => LastStep.op = "inst.wait_for"
        /\ ~call.exc
              => /\ call.ret = TRUE
                 /\ OpsOf(call.trace) = <<"instances.get", "inst.delete", "inst.wait_for">>
                 /\ AllOk(call.trace)
                 /\ call.wait \in {"deleted", "unknown"}
                 /\ StatesAfter \subseteq {"deleted"}
                 /\ call.wait = "unknown" <=> StatesAfter = {}
        /\ (Has("inst.wait_for") /\ call.wait = "error")
              => /\ call.exc /\ call.ret = None
                 /\ LastStep.op = "inst.wait_for" /\ ~LastStep.ok
                 /\ StatesAfter = {"error"}

\* C23's case: a delete of the running instance i1 whose wait ends on the
\* ERROR state.
C23_Witness ==
    /\ call.op = "delete" /\ Present /\ call.deployment.iid = "i1"
    /\ call.wait = "error" /\ call.exc /\ Count("inst.delete") = 1
    /\ StateOf(call.pre, "i1") = "running"

\* C24: restart issues inst.reboot exactly when the record yields an instance
\* id and the provider still has that instance, and issues it once; a restart
\* that returns returns True if and only if it issued the reboot, and False,
\* with no reboot and the provider as it was, when the id is missing or the
\* instance no longer exists.
C24_RestartRebootsIffPresent ==
    call.op = "restart" =>
        /\ Has("inst.reboot") <=> Present
        /\ Count("inst.reboot") <= 1
        /\ ~call.exc => (call.ret = TRUE <=> Has("inst.reboot"))
        /\ call.exc => (call.ret = None /\ ~LastStep.ok)
        /\ (NoInstanceId \/ Vanished)
              => (~call.exc /\ call.ret = FALSE /\ provider = call.pre)

\* C24's case: a restart for a record whose instance an earlier delete took
\* from the provider.
C24_Witness ==
    /\ call.op = "restart" /\ Vanished /\ call.deployment.iid = "i1"
    /\ call.ret = FALSE /\ ~Has("inst.reboot")

\* C25: health_check answers with the state the provider reports for the
\* instance when the instance exists and with 'not_found' when the provider
\* has no such instance, and a health check, whatever its outcome, leaves
\* every resource of the provider as it was.
C25_HealthCheckReportsState ==
    call.op = "health_check" =>
        /\ provider = call.pre
        /\ Present
              => /\ ~call.exc
                 /\ call.ret = [instance_status |->
                                    StateOf(call.pre, call.deployment.iid)]
        /\ Vanished => (~call.exc /\ call.ret = [instance_status |-> "not_found"])

\* C25's case: a health check of i1 after a restart had put it in another
\* state than the one it was launched to.
C25_Witness ==
    /\ call.op = "health_check" /\ Present /\ call.deployment.iid = "i1"
    /\ call.ret = [instance_status |-> "rebooting"]

-----------------------------------------------------------------------------
(* Subnet of a given network: claim C28 (SpecNet).                         *)

\* C28: when a network id is given and no subnet id, the subnet returned
\* belongs to the given network, also when the network has no subnet or none
\* in the requested placement zone.
C28_DefaultSubnetInGivenNetwork ==
    (IsNetCall /\ ~call.exc /\ Truthy(call.args.net_id) /\ ~Truthy(call.args.subnet_id))
        => (call.ret \in SubnetIds /\ SubnetNet(call.ret) = call.args.net_id)

-----------------------------------------------------------------------------
(* Created instances are reported: claim C29 (Spec).                       *)

\* The step of the given name was made and did not raise.
Succeeded(op) == \E i \in 1..Len(call.trace) : call.trace[i].op = op /\ call.trace[i].ok

\* C29: whenever instances.create and the readiness wait of a deploy run
\* succeeded, the run ends with a result that carries the id of the instance
\* it created, not with an error.
C29_ReadyInstanceReported ==
    (IsDeploy /\ Succeeded("instances.create") /\ Succeeded("inst.wait_till_ready"))
        => /\ ~call.exc
           /\ "instance" \in DOMAIN call.ret
           /\ call.ret.instance = [id |-> call.inst]

-----------------------------------------------------------------------------
(* Deployment tasks: claim C27 (SpecTasks).                                *)

\* C27: after any sequence of task-creation requests a deployment has at most
\* one LAUNCH task, and a request to create a LAUNCH task for a deployment
\* that has one is answered 400 with an error on 'action' and leaves the
\* table as it was, with one LAUNCH task for the deployment.
C27_AtMostOneLaunchTask ==
    /\ \A d \in DeploymentIds : Len(LaunchTasks(tasks, d)) <= 1
    /\ (/\ call.op = "post_task" /\ call.action = "LAUNCH"
        /\ LaunchTasks(call.before, call.deployment) /= <<>>)
          => /\ call.status = 400 /\ "action" \in call.errors
             /\ tasks = call.before
             /\ Len(LaunchTasks(tasks, call.deployment)) = 1

\* C27's case: a LAUNCH request for d1 rejected after d1 got its LAUNCH task
\* from an earlier request and tasks of other kinds besides.
C27_Witness ==
    /\ call.op = "post_task" /\ call.action = "LAUNCH" /\ call.deployment = "d1"
    /\ call.status = 400
    /\ Len(tasks) = 3 /\ tasks[1].action = "HEALTH_CHECK" /\ tasks[2] = Task("d1", "LAUNCH")

-----------------------------------------------------------------------------
(* Concurrent runs: claim C30 (SpecRace).                                  *)

\* Run r made inst.add_floating_ip(fip) for a floating IP and returned.
Attached(r) == runs[r].pc = "done" /\ runs[r].fip /= None

\* C30: under any interleaving of two deploy runs launching into the same
\* network, no floating IP of the account is the address of two instances,
\* and no two runs pick and attach the same floating IP.
C30_NoFloatingIpAttachedTwice ==
    /\ \A i, j \in 1..Len(provider.instances) :
          (i /= j /\ \E k \in 1..Len(provider.fips) :
                        provider.fips[k].ip = provider.instances[i].public_ip)
              => provider.instances[i].public_ip /= provider.instances[j].public_ip
    /\ \A r1, r2 \in DOMAIN runs :
          (r1 /= r2 /\ Attached(r1) /\ Attached(r2)) => runs[r1].fip /= runs[r2].fip

-----------------------------------------------------------------------------
(* Routers over successive calls: claim C31 (SpecNet).                     *)

\* C31: after any number of sequential setup_networking calls for the same
\* subnet, the calls have created at most one router for it, also when the
\* gateway attachment or a subnet attachment of an earlier call failed and
\* was swallowed.
C31_AtMostOneRouterCreated ==
    IsNetCall => \A s \in BagToSet(call.made) : CopiesIn(s, call.made) <= 1

-----------------------------------------------------------------------------
(* The requested static IP: claim C32 (Spec).                              *)

\* The position of the first step of that name in the run's trace, 0 when
\* there is none.
StepAt(op) ==
    IF Has(op) THEN CHOOSE i \in 1..Len(call.trace) :
                        /\ call.trace[i].op = op
                        /\ \A j \in 1..(i - 1) : call.trace[j].op /= op
    ELSE 0

\* The remote calls of the third tier of attach_public_ip.
FloatingIpOps ==
    {"networks.get@ip", "gateways.get_or_create_inet_gateway@ip", "gateway.floating_ips",
     "floating_ips.create", "inst.add_floating_ip"}

\* C32: when a static IP is requested, it is attached after the readiness
\* wait and the instance is refreshed right after it; once both are done the
\* public address resolution makes no call for a floating IP and leaves the
\* account's floating IPs as they were, and the result of _provision_host
\* carries the requested address as publicIP, as does the result of deploy
\* unless the configurer returned a publicIP of its own.
C32_StaticIpIsThePublicAddress ==
    (IsDeploy /\ Truthy(call.cfg.staticIP) /\ Succeeded("inst.wait_till_ready")) =>
        /\ Count("inst.add_floating_ip@static") = 1
        /\ StepAt("inst.add_floating_ip@static") > StepAt("inst.wait_till_ready")
        /\ call.trace[StepAt("inst.add_floating_ip@static")].arg = call.cfg.staticIP
        /\ Succeeded("inst.add_floating_ip@static")
              => StepAt("inst.refresh") = StepAt("inst.add_floating_ip@static") + 1
        /\ \A op \in FloatingIpOps : ~Has(op)
        /\ provider.fips = call.pre.fips
        /\ ~call.exc
              => /\ ProvisionResult.publicIP = call.cfg.staticIP
                 /\ "publicIP" \notin DOMAIN ConfigureResult
                       => call.ret.publicIP = call.cfg.staticIP

\* C32's case: a run with a static IP whose instance came up with no public
\* and no globally routable address, on an account with an unused floating
\* IP that the address resolution would otherwise have attached.
C32_Witness ==
    /\ IsDeploy /\ call.cfg.staticIP = "fip-static" /\ call.f.ip = "private"
    /\ ~call.exc /\ call.cfg.host_address = None
    /\ call.ret.publicIP = "fip-static"
    /\ UnusedFloatingIps(call.pre) /= <<>>

=============================================================================
